---- MODULE Spec2Model ----
(***************************************************************************)
(* Model of the file subsystem of signalk-mydata-plugin (src/index.js):    *)
(* the path containment guard safeJoin, the root registry built by         *)
(* plugin.start, and the /files/* request handlers acting on a POSIX       *)
(* filesystem.                                                             *)
(*                                                                         *)
(* A JavaScript string is a sequence of one-character strings              *)
(* ("a/b" is <<"a", "/", "b">>).  An absolute filesystem path, where the   *)
(* filesystem is concerned, is the sequence of its segments (each segment  *)
(* a string in the above sense); <<>> is the directory "/".                *)
(***************************************************************************)
EXTENDS Integers, Sequences, FiniteSets, TLC

VARIABLES
    started,    \* plugin.start has run and registerWithRouter is installed
    options,    \* the options plugin.start was given
    fileRoots,  \* the registry: sequence of [id, label, path]
    fs,         \* the filesystem: absolute path -> [kind, data]
    last,       \* the last file request handled and its response
    up,         \* per upload request: the closure variables of its handler
    nreq,       \* number of requests issued so far
    gRoot,      \* guard harness: the root given to safeJoin
    gRel,       \* guard harness: the relative path given to safeJoin
    gRes,       \* guard harness: what safeJoin returned
    rd,         \* a read request between its awaits: what its handler holds
    dl,         \* a delete request between its awaits: what its handler holds
    zip,        \* a streamed download: its response, and the archiver or the file
    nav,        \* the app as the goto and show handlers left it, and their answer
    unsubscribes, \* plugin.unsubscribes: the position subscriptions made by start
    client,     \* the web client: its state object, filesState and what it shows
    sk          \* the Signal K server's resources: the ids of its waypoints and routes

vars == <<started, options, fileRoots, fs, last, up, nreq, gRoot, gRel, gRes, rd, dl,
         zip, nav, unsubscribes, client, sk>>

-----------------------------------------------------------------------------
(* Bounds *)

MaxLen == 5          \* longest relative path the guard harness tries
MaxReq == 2          \* file requests per behaviour
MaxParts == 2        \* file parts per upload request

-----------------------------------------------------------------------------
(* Strings *)

SEP == "/"           \* path.sep on the POSIX build
BSL == "\\"

GuardChars == {"a", ".", SEP, BSL}

StrsUpTo(chars, n) == UNION {[1..k -> chars] : k \in 0..n}

StartsWith(s, p) ==
    /\ Len(p) <= Len(s)
    /\ \A i \in 1..Len(p) : s[i] = p[i]

\* rel.replace(/\\/g, '/')
ReplaceBackslashes(s) == [i \in 1..Len(s) |-> IF s[i] = BSL THEN SEP ELSE s[i]]

\* r.replace(/^\/+/, '')
RECURSIVE StripLeadingSlashes(_)
StripLeadingSlashes(s) ==
    IF s # <<>> /\ s[1] = SEP THEN StripLeadingSlashes(Tail(s)) ELSE s

\* s.split('/'): the segments between separators, empty ones included
RECURSIVE SplitAcc(_, _, _)
SplitAcc(s, cur, acc) ==
    IF s = <<>> THEN Append(acc, cur)
    ELSE IF s[1] = SEP THEN SplitAcc(Tail(s), <<>>, Append(acc, cur))
    ELSE SplitAcc(Tail(s), Append(cur, s[1]), acc)

Split(s) == SplitAcc(s, <<>>, <<>>)

DOT == <<".">>
DOTDOT == <<".", ".">>

\* normalizeString of node's path module, for an absolute path: "." and empty
\* segments are dropped, ".." removes the segment before it and is dropped at
\* the top.
RECURSIVE NormalizeSegs(_, _)
NormalizeSegs(segs, stack) ==
    IF segs = <<>> THEN stack
    ELSE LET g == Head(segs) IN
         IF g = <<>> \/ g = DOT THEN NormalizeSegs(Tail(segs), stack)
         ELSE IF g = DOTDOT
              THEN NormalizeSegs(Tail(segs),
                                 IF stack = <<>> THEN stack
                                 ELSE SubSeq(stack, 1, Len(stack) - 1))
              ELSE NormalizeSegs(Tail(segs), Append(stack, g))

\* the segments of an absolute path string, normalised
SegsOf(s) == NormalizeSegs(Split(s), <<>>)

\* an absolute path as a string: "/" followed by the segments joined with "/"
RECURSIVE JoinSegs(_)
JoinSegs(segs) ==
    IF segs = <<>> THEN <<>>
    ELSE IF Len(segs) = 1 THEN segs[1]
    ELSE segs[1] \o <<SEP>> \o JoinSegs(Tail(segs))

AbsString(segs) == <<SEP>> \o JoinSegs(segs)

IsAbsolute(s) == s # <<>> /\ s[1] = SEP

\* path.resolve(a, b) with a absolute: b wins when it is absolute, an empty b
\* is skipped, otherwise a + "/" + b; the result is normalised.
PathResolve(a, b) ==
    IF IsAbsolute(b) THEN AbsString(SegsOf(b))
    ELSE IF b = <<>> THEN AbsString(SegsOf(a))
    ELSE AbsString(SegsOf(a \o <<SEP>> \o b))

TRAVERSAL == "Path traversal blocked"

\* the containment test of safeJoin
EscapesNoSep(full, rootFull) == ~StartsWith(full, rootFull) /\ full # rootFull
EscapesNoEq(full, rootFull) == ~StartsWith(full, rootFull \o <<SEP>>)
Escapes(full, rootFull) ==
    ~StartsWith(full, rootFull \o <<SEP>>) /\ full # rootFull

\* "force relative"
CleanedNoStrip(r) == r
Cleaned(r) == StripLeadingSlashes(r)

safeJoin(root, rel) ==
    LET r == ReplaceBackslashes(rel)
        cleaned == Cleaned(r)
        full == PathResolve(root, cleaned)
        rootFull == PathResolve(root, <<>>)
    IN  IF Escapes(full, rootFull)
        THEN [ok |-> FALSE, full |-> <<>>, error |-> TRAVERSAL]
        ELSE [ok |-> TRUE, full |-> full, error |-> ""]

\* path.dirname, path.basename and path.join on normalised absolute paths
Dirname(full) ==
    LET segs == SegsOf(full)
    IN  IF segs = <<>> THEN <<SEP>>
        ELSE AbsString(SubSeq(segs, 1, Len(segs) - 1))

\* path.basename of any string: what follows the last separator, trailing
\* separators ignored ("" for "/" and for "")
RECURSIVE DropTrailingSlashes(_)
DropTrailingSlashes(s) ==
    IF s # <<>> /\ s[Len(s)] = SEP
    THEN DropTrailingSlashes(SubSeq(s, 1, Len(s) - 1)) ELSE s

Basename(s) ==
    LET t == DropTrailingSlashes(s)
        parts == Split(t)
    IN  parts[Len(parts)]

PathJoin(dir, name) ==
    IF name = <<>> THEN AbsString(SegsOf(dir))
    ELSE AbsString(SegsOf(dir \o <<SEP>> \o name))

-----------------------------------------------------------------------------
(* The filesystem (POSIX semantics of the fs calls the handlers make).     *)
(* fs maps each existing absolute path (its segments) to a node; "/" is    *)
(* always a directory.  A file's size is Len(data) + pad: pad stands for   *)
(* further bytes whose values do not matter.                               *)

DirNode == [kind |-> "dir", data |-> <<>>, pad |-> 0]
FileNode(data, pad) == [kind |-> "file", data |-> data, pad |-> pad]

Exists(f, p) == p \in DOMAIN f
IsDir(f, p) == Exists(f, p) /\ f[p].kind = "dir"
IsFile(f, p) == Exists(f, p) /\ f[p].kind = "file"
Parent(p) == SubSeq(p, 1, Len(p) - 1)
IsPrefix(p, q) == Len(p) <= Len(q) /\ SubSeq(q, 1, Len(p)) = p
Prefixes(p) == {SubSeq(p, 1, k) : k \in 0..Len(p)}
Children(f, p) == {q \in DOMAIN f : Len(q) = Len(p) + 1 /\ IsPrefix(p, q)}

FsOk(f) == [ok |-> TRUE, fs |-> f, error |-> ""]
FsErr(f, e) == [ok |-> FALSE, fs |-> f, error |-> e]

\* fsp.mkdir(p) without the recursive option: the parent must exist
MkdirNoParents(f, p) ==
    IF Exists(f, p) THEN (IF IsDir(f, p) THEN FsOk(f) ELSE FsErr(f, "EEXIST"))
    ELSE IF ~Exists(f, Parent(p)) THEN FsErr(f, "ENOENT")
    ELSE IF IsFile(f, Parent(p)) THEN FsErr(f, "ENOTDIR")
    ELSE FsOk([q \in DOMAIN f \cup {p} |-> IF q = p THEN DirNode ELSE f[q]])

\* a mkdir that refuses a path that exists
MkdirpStrict(f, p) ==
    IF Exists(f, p) THEN FsErr(f, "EEXIST")
    ELSE IF \E q \in Prefixes(p) : IsFile(f, q) THEN FsErr(f, "ENOTDIR")
    ELSE FsOk([q \in DOMAIN f \cup Prefixes(p) |->
                  IF q \in DOMAIN f THEN f[q] ELSE DirNode])

\* fsp.mkdir(p, { recursive: true })
Mkdirp(f, p) ==
    IF \E q \in Prefixes(p) : IsFile(f, q)
    THEN FsErr(f, IF IsFile(f, p) THEN "EEXIST" ELSE "ENOTDIR")
    ELSE FsOk([q \in DOMAIN f \cup Prefixes(p) |->
                  IF q \in DOMAIN f THEN f[q] ELSE DirNode])

\* fsp.writeFile(p, data)
\* writeFile with the append flag: the data is added to what the file holds
WriteFileAppend(f, p, data) ==
    IF IsDir(f, p) THEN FsErr(f, "EISDIR")
    ELSE IF ~Exists(f, Parent(p)) THEN FsErr(f, "ENOENT")
    ELSE IF IsFile(f, Parent(p)) THEN FsErr(f, "ENOTDIR")
    ELSE FsOk([q \in DOMAIN f \cup {p} |->
                  IF q # p THEN f[q]
                  ELSE IF IsFile(f, p) THEN FileNode(f[p].data \o data, f[p].pad)
                  ELSE FileNode(data, 0)])

WriteFile(f, p, data) ==
    IF IsDir(f, p) THEN FsErr(f, "EISDIR")
    ELSE IF ~Exists(f, Parent(p)) THEN FsErr(f, "ENOENT")
    ELSE IF IsFile(f, Parent(p)) THEN FsErr(f, "ENOTDIR")
    ELSE FsOk([q \in DOMAIN f \cup {p} |->
                  IF q = p THEN FileNode(data, 0) ELSE f[q]])

Remove(f, p) == [q \in DOMAIN f \ {p} |-> f[q]]

\* a removal that takes the directory with everything below it
RmdirRecursive(f, p) ==
    IF ~Exists(f, p) THEN FsErr(f, "ENOENT")
    ELSE IF IsFile(f, p) THEN FsErr(f, "ENOTDIR")
    ELSE IF p = <<>> THEN FsErr(f, "EBUSY")
    ELSE FsOk([q \in {r \in DOMAIN f : ~IsPrefix(p, r)} |-> f[q]])

\* fsp.rmdir(p)
Rmdir(f, p) ==
    IF ~Exists(f, p) THEN FsErr(f, "ENOENT")
    ELSE IF IsFile(f, p) THEN FsErr(f, "ENOTDIR")
    ELSE IF Children(f, p) # {} THEN FsErr(f, "ENOTEMPTY")
    ELSE IF p = <<>> THEN FsErr(f, "EBUSY")
    ELSE FsOk(Remove(f, p))

\* fsp.unlink(p)
Unlink(f, p) ==
    IF ~Exists(f, p) THEN FsErr(f, "ENOENT")
    ELSE IF IsDir(f, p) THEN FsErr(f, "EISDIR")
    ELSE FsOk(Remove(f, p))

\* a rename that leaves the source where it was
RenameKeepsSource(f, src, dst) ==
    IF ~Exists(f, src) \/ ~Exists(f, Parent(dst)) THEN FsErr(f, "ENOENT")
    ELSE IF IsFile(f, Parent(dst)) THEN FsErr(f, "ENOTDIR")
    ELSE IF src = dst THEN FsOk(f)
    ELSE IF src = <<>> THEN FsErr(f, "EBUSY")
    ELSE IF IsDir(f, src) /\ IsPrefix(src, dst) THEN FsErr(f, "EINVAL")
    ELSE IF IsDir(f, src) /\ IsFile(f, dst) THEN FsErr(f, "ENOTDIR")
    ELSE IF IsDir(f, dst) /\ Children(f, dst) # {} THEN FsErr(f, "ENOTEMPTY")
    ELSE IF IsFile(f, src) /\ IsDir(f, dst) THEN FsErr(f, "EISDIR")
    ELSE LET moved == {q \in DOMAIN f : IsPrefix(src, q)}
             Target(q) == dst \o SubSeq(q, Len(src) + 1, Len(q))
         IN  FsOk([q \in DOMAIN f \cup {Target(m) : m \in moved} |->
                      IF \E m \in moved : Target(m) = q
                      THEN f[CHOOSE m \in moved : Target(m) = q]
                      ELSE f[q]])

\* fsp.rename(src, dst): rename(2)
Rename(f, src, dst) ==
    IF ~Exists(f, src) \/ ~Exists(f, Parent(dst)) THEN FsErr(f, "ENOENT")
    ELSE IF IsFile(f, Parent(dst)) THEN FsErr(f, "ENOTDIR")
    ELSE IF src = dst THEN FsOk(f)
    ELSE IF src = <<>> THEN FsErr(f, "EBUSY")
    ELSE IF IsDir(f, src) /\ IsPrefix(src, dst) THEN FsErr(f, "EINVAL")
    ELSE IF IsDir(f, src) /\ IsFile(f, dst) THEN FsErr(f, "ENOTDIR")
    ELSE IF IsDir(f, dst) /\ Children(f, dst) # {} THEN FsErr(f, "ENOTEMPTY")
    ELSE IF IsFile(f, src) /\ IsDir(f, dst) THEN FsErr(f, "EISDIR")
    ELSE LET moved == {q \in DOMAIN f : IsPrefix(src, q)}
             Target(q) == dst \o SubSeq(q, Len(src) + 1, Len(q))
             kept == (DOMAIN f \ moved) \ {dst}
         IN  FsOk([q \in kept \cup {Target(m) : m \in moved} |->
                      IF q \in kept THEN f[q]
                      ELSE f[CHOOSE m \in moved : Target(m) = q]])

-----------------------------------------------------------------------------
(* The root registry (plugin.start) *)

DEFAULT_ROOT == <<"/", "v", "a", "r", "/", "l", "i", "b", "/", "s", "i", "g", "n", "a", "l", "k", "/", "m", "y", "d", "a", "t", "a", "-", "f", "i", "l", "e", "s">>

\* extraRoots.filter(root => root && root.path)
RECURSIVE FilterRoots(_)
FilterRoots(extra) ==
    IF extra = <<>> THEN <<>>
    ELSE IF Head(extra).path # <<>>
         THEN <<Head(extra)>> \o FilterRoots(Tail(extra))
         ELSE FilterRoots(Tail(extra))

ExtraId(idx) == CASE idx = 1 -> "extra-1" [] idx = 2 -> "extra-2" [] OTHER -> "extra-n"

\* options.remoteFileRoot ? options.remoteFileRoot : '/var/lib/signalk/mydata-files'
RemoteRoot(opt) ==
    IF opt.remoteFileRoot # <<>> THEN opt.remoteFileRoot ELSE DEFAULT_ROOT

\* the fileRoots array of plugin.start; an absent option is the empty value
BuildFileRootsNoDefault(opt) ==
    LET kept == FilterRoots(opt.additionalFileRoots)
    IN  (IF opt.remoteFileRoot # <<>>
         THEN <<[id |-> "default", label |-> <<"D", "e", "f", "a", "u", "l", "t">>,
                 path |-> opt.remoteFileRoot]>>
         ELSE <<>>)
        \o [i \in 1..Len(kept) |->
              [id |-> ExtraId(i),
               label |-> IF kept[i].label # <<>> THEN kept[i].label ELSE kept[i].path,
               path |-> kept[i].path]]
BuildFileRoots(opt) ==
    LET kept == FilterRoots(opt.additionalFileRoots)
    IN  <<[id |-> "default", label |-> <<"D", "e", "f", "a", "u", "l", "t">>,
           path |-> RemoteRoot(opt)]>>
        \o [i \in 1..Len(kept) |->
              [id |-> ExtraId(i),
               label |-> IF kept[i].label # <<>> THEN kept[i].label ELSE kept[i].path,
               path |-> kept[i].path]]

\* resolveRoot: the id "" stands for an omitted (or empty) root id
HasRoot(roots, rootId) == \E i \in 1..Len(roots) : roots[i].id = rootId
FindRoot(roots, rootId) ==
    roots[CHOOSE i \in 1..Len(roots) :
            /\ roots[i].id = rootId
            /\ \A j \in 1..(i - 1) : roots[j].id # rootId]

resolveRootLast(roots, rootId) ==
    IF rootId = "" THEN roots[1]
    ELSE IF HasRoot(roots, rootId) THEN FindRoot(roots, rootId)
    ELSE roots[Len(roots)]
resolveRoot(roots, rootId) ==
    IF rootId = "" THEN roots[1]
    ELSE IF HasRoot(roots, rootId) THEN FindRoot(roots, rootId)
    ELSE roots[1]

-----------------------------------------------------------------------------
(* Extension tables of the read handler *)

TEXT_EXTS == {<<".", "t", "x", "t">>,
    <<".", "l", "o", "g">>,
    <<".", "m", "d">>,
    <<".", "j", "s", "o", "n">>,
    <<".", "g", "e", "o", "j", "s", "o", "n">>,
    <<".", "g", "p", "x">>,
    <<".", "k", "m", "l">>,
    <<".", "c", "s", "v">>,
    <<".", "x", "m", "l">>,
    <<".", "y", "a", "m", "l">>,
    <<".", "y", "m", "l">>}

OCTET == <<"a", "p", "p", "l", "i", "c", "a", "t", "i", "o", "n", "/", "o", "c", "t", "e", "t", "-", "s", "t", "r", "e", "a", "m">>

MimeOf(ext) ==
    CASE ext = <<".", "t", "x", "t">> -> <<"t", "e", "x", "t", "/", "p", "l", "a", "i", "n">>
      [] ext = <<".", "l", "o", "g">> -> <<"t", "e", "x", "t", "/", "p", "l", "a", "i", "n">>
      [] ext = <<".", "m", "d">> -> <<"t", "e", "x", "t", "/", "m", "a", "r", "k", "d", "o", "w", "n">>
      [] ext = <<".", "j", "s", "o", "n">> -> <<"a", "p", "p", "l", "i", "c", "a", "t", "i", "o", "n", "/", "j", "s", "o", "n">>
      [] ext = <<".", "g", "e", "o", "j", "s", "o", "n">> -> <<"a", "p", "p", "l", "i", "c", "a", "t", "i", "o", "n", "/", "g", "e", "o", "+", "j", "s", "o", "n">>
      [] ext = <<".", "g", "p", "x">> -> <<"a", "p", "p", "l", "i", "c", "a", "t", "i", "o", "n", "/", "g", "p", "x", "+", "x", "m", "l">>
      [] ext = <<".", "k", "m", "l">> -> <<"a", "p", "p", "l", "i", "c", "a", "t", "i", "o", "n", "/", "v", "n", "d", ".", "g", "o", "o", "g", "l", "e", "-", "e", "a", "r", "t", "h", ".", "k", "m", "l", "+", "x", "m", "l">>
      [] ext = <<".", "c", "s", "v">> -> <<"t", "e", "x", "t", "/", "c", "s", "v">>
      [] ext = <<".", "x", "m", "l">> -> <<"a", "p", "p", "l", "i", "c", "a", "t", "i", "o", "n", "/", "x", "m", "l">>
      [] ext = <<".", "y", "a", "m", "l">> -> <<"a", "p", "p", "l", "i", "c", "a", "t", "i", "o", "n", "/", "y", "a", "m", "l">>
      [] ext = <<".", "y", "m", "l">> -> <<"a", "p", "p", "l", "i", "c", "a", "t", "i", "o", "n", "/", "y", "a", "m", "l">>
      [] ext = <<".", "p", "n", "g">> -> <<"i", "m", "a", "g", "e", "/", "p", "n", "g">>
      [] ext = <<".", "j", "p", "g">> -> <<"i", "m", "a", "g", "e", "/", "j", "p", "e", "g">>
      [] ext = <<".", "j", "p", "e", "g">> -> <<"i", "m", "a", "g", "e", "/", "j", "p", "e", "g">>
      [] ext = <<".", "g", "i", "f">> -> <<"i", "m", "a", "g", "e", "/", "g", "i", "f">>
      [] ext = <<".", "w", "e", "b", "p">> -> <<"i", "m", "a", "g", "e", "/", "w", "e", "b", "p">>
      [] ext = <<".", "s", "v", "g">> -> <<"i", "m", "a", "g", "e", "/", "s", "v", "g", "+", "x", "m", "l">>
      [] ext = <<".", "p", "d", "f">> -> <<"a", "p", "p", "l", "i", "c", "a", "t", "i", "o", "n", "/", "p", "d", "f">>
      [] ext = <<".", "m", "p", "3">> -> <<"a", "u", "d", "i", "o", "/", "m", "p", "e", "g">>
      [] ext = <<".", "w", "a", "v">> -> <<"a", "u", "d", "i", "o", "/", "w", "a", "v">>
      [] ext = <<".", "o", "g", "g">> -> <<"a", "u", "d", "i", "o", "/", "o", "g", "g">>
      [] ext = <<".", "m", "p", "4">> -> <<"v", "i", "d", "e", "o", "/", "m", "p", "4">>
      [] ext = <<".", "w", "e", "b", "m">> -> <<"v", "i", "d", "e", "o", "/", "w", "e", "b", "m">>
      [] OTHER -> OCTET

PREVIEW_MAX == 5242880   \* 5 * 1024 * 1024


-----------------------------------------------------------------------------
(* Encodings.  A byte is a number in 0..255.  The characters the model     *)
(* writes are ASCII, except the ones written "E9", which stands for        *)
(* U+00E9, "D800", which stands for the unpaired surrogate U+D800 a        *)
(* JavaScript string can hold, and "FFFD", which stands for the            *)
(* replacement character U+FFFD.                                           *)

B64 == <<"A", "B", "C", "D", "E", "F", "G", "H", "I", "J", "K", "L", "M", "N", "O", "P", "Q", "R", "S", "T", "U", "V", "W", "X", "Y", "Z", "a", "b", "c", "d", "e", "f", "g", "h", "i", "j", "k", "l", "m", "n", "o", "p", "q", "r", "s", "t", "u", "v", "w", "x", "y", "z", "0", "1", "2", "3", "4", "5", "6", "7", "8", "9", "+", "/">>

ASCII == <<
    " ", "!", "\"", "#", "$", "%", "&", "'", "(", ")", "*", "+",
    ",", "-", ".", "/", "0", "1", "2", "3", "4", "5", "6", "7",
    "8", "9", ":", ";", "<", "=", ">", "?", "@", "A", "B", "C",
    "D", "E", "F", "G", "H", "I", "J", "K", "L", "M", "N", "O",
    "P", "Q", "R", "S", "T", "U", "V", "W", "X", "Y", "Z", "[",
    "\\", "]", "^", "_", "GRAVE", "a", "b", "c", "d", "e", "f", "g",
    "h", "i", "j", "k", "l", "m", "n", "o", "p", "q", "r", "s",
    "t", "u", "v", "w", "x", "y", "z", "{", "|", "}", "~">>   \* the characters 32..126 ("GRAVE" stands for the character 96)

AsciiChars == {ASCII[i] : i \in 1..95}
AsciiOf(c) == IF c \in AsciiChars THEN (CHOOSE i \in 1..95 : ASCII[i] = c) + 31 ELSE 63

\* string -> bytes, as fsp.writeFile(full, content, 'utf8') stores it
RECURSIVE Utf8Encode(_)
Utf8Encode(s) ==
    IF s = <<>> THEN <<>>
    ELSE (IF Head(s) = "E9" THEN <<195, 169>>
          ELSE IF Head(s) \in {"D800", "FFFD"} THEN <<239, 191, 189>>
          ELSE <<AsciiOf(Head(s))>>)
         \o Utf8Encode(Tail(s))

\* bytes -> string, as buf.toString('utf8') decodes them
RECURSIVE Utf8Decode(_)
Utf8Decode(b) ==
    IF b = <<>> THEN <<>>
    ELSE IF Len(b) >= 2 /\ b[1] = 195 /\ b[2] = 169
         THEN <<"E9">> \o Utf8Decode(SubSeq(b, 3, Len(b)))
    ELSE IF Len(b) >= 3 /\ b[1] = 239 /\ b[2] = 191 /\ b[3] = 189
         THEN <<"FFFD">> \o Utf8Decode(SubSeq(b, 4, Len(b)))
    ELSE IF b[1] < 128 /\ \E c \in AsciiChars : AsciiOf(c) = b[1]
         THEN <<CHOOSE c \in AsciiChars : AsciiOf(c) = b[1]>> \o Utf8Decode(Tail(b))
    ELSE <<"FFFD">> \o Utf8Decode(Tail(b))

IsB64(c) == \E i \in 1..64 : B64[i] = c
B64Val(c) == (CHOOSE i \in 1..64 : B64[i] = c) - 1

\* the 6-bit values of a base64 string up to its first "=", other characters skipped
RECURSIVE B64Vals(_)
B64Vals(s) ==
    IF s = <<>> \/ Head(s) = "=" THEN <<>>
    ELSE IF IsB64(Head(s)) THEN <<B64Val(Head(s))>> \o B64Vals(Tail(s))
    ELSE B64Vals(Tail(s))

RECURSIVE B64Bytes(_)
B64Bytes(v) ==
    IF Len(v) >= 4
    THEN LET n == v[1] * 262144 + v[2] * 4096 + v[3] * 64 + v[4]
         IN  <<n \div 65536, (n \div 256) % 256, n % 256>>
             \o B64Bytes(SubSeq(v, 5, Len(v)))
    ELSE IF Len(v) = 3
    THEN LET n == v[1] * 262144 + v[2] * 4096 + v[3] * 64
         IN  <<n \div 65536, (n \div 256) % 256>>
    ELSE IF Len(v) = 2
    THEN LET n == v[1] * 262144 + v[2] * 4096 IN <<n \div 65536>>
    ELSE <<>>

\* Buffer.from(content, 'base64')
Base64Decode(s) == B64Bytes(B64Vals(s))

\* buf.toString('base64')
RECURSIVE Base64Encode(_)
Base64Encode(b) ==
    IF b = <<>> THEN <<>>
    ELSE IF Len(b) = 1
    THEN LET n == b[1] * 65536
         IN  <<B64[(n \div 262144) + 1], B64[((n \div 4096) % 64) + 1], "=", "=">>
    ELSE IF Len(b) = 2
    THEN LET n == b[1] * 65536 + b[2] * 256
         IN  <<B64[(n \div 262144) + 1], B64[((n \div 4096) % 64) + 1],
               B64[((n \div 64) % 64) + 1], "=">>
    ELSE LET n == b[1] * 65536 + b[2] * 256 + b[3]
         IN  <<B64[(n \div 262144) + 1], B64[((n \div 4096) % 64) + 1],
               B64[((n \div 64) % 64) + 1], B64[(n % 64) + 1]>>
             \o Base64Encode(SubSeq(b, 4, Len(b)))

\* path.extname(full).toLowerCase()
UPPER == <<"A", "B", "C", "D", "E", "F", "G", "H", "I", "J", "K", "L", "M", "N", "O", "P", "Q", "R", "S", "T", "U", "V", "W", "X", "Y", "Z">>
LOWER == <<"a", "b", "c", "d", "e", "f", "g", "h", "i", "j", "k", "l", "m", "n", "o", "p", "q", "r", "s", "t", "u", "v", "w", "x", "y", "z">>
IsUpper(c) == \E i \in 1..26 : UPPER[i] = c
LowerChar(c) == IF IsUpper(c) THEN LOWER[CHOOSE i \in 1..26 : UPPER[i] = c] ELSE c
ToLower(s) == [i \in 1..Len(s) |-> LowerChar(s[i])]

Dots(s) == {i \in 1..Len(s) : s[i] = "."}
Extname(full) ==
    LET base == Basename(full)
        last_ == IF Dots(base) = {} THEN 0
                 ELSE CHOOSE i \in Dots(base) : \A j \in Dots(base) : j <= i
    IN  IF last_ <= 1 \/ base = DOTDOT THEN <<>>
        ELSE SubSeq(base, last_, Len(base))

-----------------------------------------------------------------------------
(* Responses and the log of filesystem calls a handler makes.  The payload *)
(* of a preview spells out the file's data; pad counts the further bytes   *)
(* of the file that the payload carries as well.                           *)

Res0 ==
    [status |-> 0, ok |-> FALSE, error |-> "", entries |-> <<>>, root |-> "",
     kind |-> "", mime |-> <<>>, size |-> 0, field |-> "none",
     payload |-> <<>>, pad |-> 0, saved |-> <<>>, stream |-> "none"]

ErrResServer(status, msg) == [Res0 EXCEPT !.status = 500, !.error = msg]
ErrRes(status, msg) == [Res0 EXCEPT !.status = status, !.error = msg]
OkRes == [Res0 EXCEPT !.status = 200, !.ok = TRUE]

Call(fn, path) == [fn |-> fn, path |-> path]
Out(f, res, calls) == [fs |-> f, res |-> res, calls |-> calls]

\* a size that counts only the bytes the model spells out
SizeNoPad(node) == Len(node.data)
Size(node) == Len(node.data) + node.pad

\* the error of a stat (or open) of a path that does not exist
StatErr(f, p) ==
    IF \E q \in Prefixes(p) : IsFile(f, q) THEN "ENOTDIR" ELSE "ENOENT"

-----------------------------------------------------------------------------
(* GET /files/list *)

\* String.prototype.localeCompare under the ICU root collation: the strings
\* are compared letter by letter ignoring case, and only when that finds no
\* difference does case decide, lower case first.
COLLATION ==
    <<"_", "-", ".", "0", "1", "2", "3", "4", "5", "6", "7", "8", "9",
      "a", "b", "c", "d", "e", "f", "g", "h", "i", "j", "k", "l", "m",
      "n", "o", "p", "q", "r", "s", "t", "u", "v", "w", "x", "y", "z">>

Primary(c) ==
    IF \E i \in 1..Len(COLLATION) : COLLATION[i] = LowerChar(c)
    THEN CHOOSE i \in 1..Len(COLLATION) : COLLATION[i] = LowerChar(c)
    ELSE 0

RECURSIVE LexCmp(_, _)
LexCmp(x, y) ==
    IF x = <<>> /\ y = <<>> THEN 0
    ELSE IF x = <<>> THEN -1
    ELSE IF y = <<>> THEN 1
    ELSE IF Head(x) < Head(y) THEN -1
    ELSE IF Head(x) > Head(y) THEN 1
    ELSE LexCmp(Tail(x), Tail(y))

Tertiary(c) == IF IsUpper(c) THEN 1 ELSE 0

localeCompareCodeUnits(a, b) ==
    LexCmp([i \in 1..Len(a) |-> AsciiOf(a[i])], [i \in 1..Len(b) |-> AsciiOf(b[i])])
localeCompare(a, b) ==
    LET byLetter == LexCmp([i \in 1..Len(a) |-> Primary(a[i])],
                           [i \in 1..Len(b) |-> Primary(b[i])])
    IN  IF byLetter # 0 THEN byLetter
        ELSE LexCmp([i \in 1..Len(a) |-> Tertiary(a[i])],
                    [i \in 1..Len(b) |-> Tertiary(b[i])])

\* the comparator given to entries.sort
EntryCmp(a, b) ==
    IF a.type = b.type THEN localeCompare(a.name, b.name)
    ELSE IF a.type = "dir" THEN -1 ELSE 1

\* Array.prototype.sort is stable: an insertion sort gives the same result
RECURSIVE InsertSorted(_, _)
InsertSorted(e, s) ==
    IF s = <<>> THEN <<e>>
    ELSE IF EntryCmp(e, Head(s)) < 0 THEN <<e>> \o s
    ELSE <<Head(s)>> \o InsertSorted(e, Tail(s))

RECURSIVE SortEntries(_)
SortEntries(s) ==
    IF s = <<>> THEN <<>>
    ELSE InsertSorted(s[Len(s)], SortEntries(SubSeq(s, 1, Len(s) - 1)))

\* size -1 stands for null
statToEntry(name, node) ==
    [name |-> name,
     type |-> IF node.kind = "dir" THEN "dir" ELSE "file",
     size |-> IF node.kind = "dir" THEN -1 ELSE Size(node)]

\* a readdir that reports no entry
NamesNone(f, p) == {}

\* fsp.readdir returns the names in an order the filesystem chooses
Names(f, p) == {q[Len(q)] : q \in Children(f, p)}
Perms(S) ==
    {o \in [1..Cardinality(S) -> S] :
        \A i, j \in 1..Cardinality(S) : i # j => o[i] # o[j]}

ListHandler(f, roots, req, order) ==
    LET rel == req.path
        root == resolveRoot(roots, req.root)
        j == safeJoin(root.path, rel)
    IN  IF ~j.ok THEN Out(f, ErrRes(400, j.error), <<>>)
        ELSE
        LET dir == SegsOf(j.full)
            m == Mkdirp(f, dir)
            c1 == <<Call("mkdir", j.full)>>
        IN  IF ~m.ok THEN Out(f, ErrRes(400, m.error), c1)
            ELSE
            LET entries == [i \in 1..Len(order) |->
                              statToEntry(order[i], m.fs[Append(dir, order[i])])]
                c2 == c1 \o <<Call("readdir", j.full)>>
                         \o [i \in 1..Len(order) |->
                               Call("stat", PathJoin(j.full, order[i]))]
            IN  Out(m.fs,
                    [OkRes EXCEPT !.entries = SortEntries(entries), !.root = root.id],
                    c2)

\* the orders readdir can return for this request
ListOrders(f, roots, req) ==
    LET j == safeJoin(resolveRoot(roots, req.root).path, req.path)
        m == Mkdirp(f, SegsOf(j.full))
    IN  IF j.ok /\ m.ok THEN Perms(Names(m.fs, SegsOf(j.full))) ELSE {<<>>}

-----------------------------------------------------------------------------
(* GET /files/read *)

TOO_LARGE == "File too large for inline preview (use download)"

\* the preview test without its application/pdf case
PreviewableNoPdf(isText, mime) ==
    /\ ~isText
    /\ \/ StartsWith(mime, <<"i", "m", "a", "g", "e", "/">>)
       \/ StartsWith(mime, <<"a", "u", "d", "i", "o", "/">>)
       \/ StartsWith(mime, <<"v", "i", "d", "e", "o", "/">>)

Previewable(isText, mime) ==
    /\ ~isText
    /\ \/ StartsWith(mime, <<"i", "m", "a", "g", "e", "/">>)
       \/ StartsWith(mime, <<"a", "u", "d", "i", "o", "/">>)
       \/ StartsWith(mime, <<"v", "i", "d", "e", "o", "/">>)
       \/ mime = MimeOf(<<".", "p", "d", "f">>)

ReadHandler(f, roots, req) ==
    LET rel == req.path IN
    IF rel = <<>> THEN Out(f, ErrRes(400, "Missing path"), <<>>)
    ELSE
    LET root == resolveRoot(roots, req.root)
        j == safeJoin(root.path, rel)
    IN  IF ~j.ok THEN Out(f, ErrRes(400, j.error), <<>>)
        ELSE
        LET p == SegsOf(j.full)
            c1 == <<Call("stat", j.full)>>
        IN  IF ~Exists(f, p) THEN Out(f, ErrRes(400, StatErr(f, p)), c1)
            ELSE IF ~IsFile(f, p) THEN Out(f, ErrRes(400, "Not a file"), c1)
            ELSE IF Size(f[p]) > PREVIEW_MAX THEN Out(f, ErrRes(413, TOO_LARGE), c1)
            ELSE
            LET buf == f[p].data
                c2 == c1 \o <<Call("readFile", j.full)>>
                ext == ToLower(Extname(j.full))
                mime == MimeOf(ext)
                isText == ext \in TEXT_EXTS
                previewable == Previewable(isText, mime)
                base == [OkRes EXCEPT !.size = Size(f[p]), !.mime = mime]
            IN  IF ~isText /\ ~previewable
                THEN Out(f, [base EXCEPT !.kind = "binary"], c2)
                ELSE IF previewable
                THEN Out(f, [base EXCEPT !.kind = "binary", !.field = "data",
                                         !.payload = Base64Encode(buf),
                                         !.pad = f[p].pad], c2)
                ELSE Out(f, [base EXCEPT !.kind = "text", !.field = "text",
                                         !.payload = Utf8Decode(buf),
                                         !.pad = f[p].pad], c2)

\* /files/read up to the await of readFile: the answer, when the handler
\* returns before it, or what the handler holds while readFile is pending
ReadStat(f, roots, req) ==
    LET rel == req.path
        early(res, calls) == [done |-> TRUE, res |-> res, calls |-> calls,
                              full |-> <<>>, size |-> 0]
    IN
    IF rel = <<>> THEN early(ErrRes(400, "Missing path"), <<>>)
    ELSE
    LET root == resolveRoot(roots, req.root)
        j == safeJoin(root.path, rel)
    IN  IF ~j.ok THEN early(ErrRes(400, j.error), <<>>)
        ELSE
        LET p == SegsOf(j.full)
            c1 == <<Call("stat", j.full)>>
        IN  IF ~Exists(f, p) THEN early(ErrRes(400, StatErr(f, p)), c1)
            ELSE IF ~IsFile(f, p) THEN early(ErrRes(400, "Not a file"), c1)
            ELSE IF Size(f[p]) > PREVIEW_MAX THEN early(ErrRes(413, TOO_LARGE), c1)
            ELSE [done |-> FALSE, res |-> Res0, calls |-> c1,
                  full |-> j.full, size |-> Size(f[p])]

\* /files/read from the await of readFile(full) on; size is st.size
ReadBody(f, full, size) ==
    LET p == SegsOf(full)
        c2 == <<Call("readFile", full)>>
    IN  IF ~Exists(f, p) THEN Out(f, ErrRes(400, StatErr(f, p)), c2)
        ELSE IF IsDir(f, p) THEN Out(f, ErrRes(400, "EISDIR"), c2)
        ELSE
        LET buf == f[p].data
            ext == ToLower(Extname(full))
            mime == MimeOf(ext)
            isText == ext \in TEXT_EXTS
            previewable == Previewable(isText, mime)
            base == [OkRes EXCEPT !.size = size, !.mime = mime]
        IN  IF ~isText /\ ~previewable
            THEN Out(f, [base EXCEPT !.kind = "binary"], c2)
            ELSE IF previewable
            THEN Out(f, [base EXCEPT !.kind = "binary", !.field = "data",
                                     !.payload = Base64Encode(buf),
                                     !.pad = f[p].pad], c2)
            ELSE Out(f, [base EXCEPT !.kind = "text", !.field = "text",
                                     !.payload = Utf8Decode(buf),
                                     !.pad = f[p].pad], c2)

-----------------------------------------------------------------------------
(* GET /files/download *)

DownloadHandler(f, roots, req) ==
    LET rel == req.path IN
    IF rel = <<>> THEN Out(f, ErrRes(400, "Missing path"), <<>>)
    ELSE
    LET root == resolveRoot(roots, req.root)
        j == safeJoin(root.path, rel)
    IN  IF ~j.ok THEN Out(f, ErrRes(400, j.error), <<>>)
        ELSE
        LET p == SegsOf(j.full)
            c1 == <<Call("stat", j.full)>>
        IN  IF ~Exists(f, p) THEN Out(f, ErrRes(400, StatErr(f, p)), c1)
            ELSE IF IsDir(f, p)
            THEN Out(f, [OkRes EXCEPT !.stream = "zip"],
                     c1 \o <<Call("spawn", Dirname(j.full))>>)
            ELSE Out(f, [OkRes EXCEPT !.stream = "file"],
                     c1 \o <<Call("createReadStream", j.full)>>)

-----------------------------------------------------------------------------
(* The web client.  Two copies of it are in the repository: the one the    *)
(* plugin serves from public/, and a later one.                            *)

\* state.config.fileRoots, filesState.rootId (NO_ROOT for null), the Files
\* tab's hidden flag; served is the fileRoots array of the last /config
\* answer, and loaded tells how the last loadConfig ended
NO_ROOT == "null"
\* the list: state.tab, state.page, state.pageSize, state.resources (the ids
\* of each tab's items), the filter text and sort order of the controls,
\* the viewport's room in rows, and what render left in the table and pager;
\* the live connection: every WebSocket connectWS made, with its readyState
\* and the events the browser has queued for it, liveSocket (their index,
\* 0 for null), whether the health interval runs, and the pending retry
\* timeouts; state.selected (the ids selected in the active tab), the
\* progress overlay, progress.controller ("ctrl" for the controller of the
\* running bulk delete) and the bulk delete itself
TABS == {"waypoints", "routes", "files"}
\* no bulkDelete() is running: its keys, its loop index, the aborted flag of
\* its controller's signal, the DELETE requests it has sent, and how the
\* last one ended
BulkIdle ==
    [phase |-> "idle", keys |-> <<>>, i |-> 0, aborted |-> FALSE, requests |-> <<>>,
     outcome |-> "none"]
ClientIdle ==
    [fileRoots |-> <<>>, rootId |-> "default", filesTabHidden |-> FALSE,
     loaded |-> "no", served |-> <<>>,
     tab |-> "waypoints", page |-> [t \in TABS |-> 1], pageSize |-> [t \in TABS |-> 8],
     resources |-> [t \in TABS |-> {}], filterText |-> "", sortOrder |-> "asc",
     viewRows |-> 2, rows |-> <<>>, totalPages |-> 1,
     prevDisabled |-> TRUE, nextDisabled |-> TRUE,
     sockets |-> <<>>, liveSocket |-> 0, liveSocketMonitor |-> FALSE, retryTimers |-> 0,
     selected |-> {}, overlayHidden |-> TRUE, controller |-> "null", bulk |-> BulkIdle]

\* router.get('/config'): the body, as a function of its keys
ConfigBody(roots) ==
    [ok |-> TRUE,
     config |-> [fileRoots |-> [k \in 1..Len(roots) |->
                    [id |-> roots[k].id, label |-> roots[k].label, path |-> roots[k].path]]]]

\* j[key] || {} followed by Array.isArray(cfg.fileRoots) ? cfg.fileRoots : []
RootsUnder(j, key) ==
    IF key \in DOMAIN j /\ "fileRoots" \in DOMAIN j[key] THEN j[key].fileRoots ELSE <<>>

\* the active root after the roots were stored: the first one when the
\* current id is not among them
KeepOrFirst(roots, rootId) ==
    IF roots # <<>> /\ ~\E k \in 1..Len(roots) : roots[k].id = rootId
    THEN roots[1].id ELSE rootId

\* loadConfig of public/app.js, after a successful fetch
loadConfigPublic(c, j) ==
    LET roots == RootsUnder(j, "config") IN
    [c EXCEPT !.fileRoots = roots, !.rootId = KeepOrFirst(roots, c.rootId),
              !.loaded = "ok", !.served = j.config.fileRoots]

\* loadConfig of the later client, with updateFilePanelVisibility
loadConfig(c, j) ==
    LET roots == RootsUnder(j, "configuration") IN
    [c EXCEPT !.fileRoots = roots,
              !.rootId = IF roots = <<>> THEN NO_ROOT ELSE KeepOrFirst(roots, c.rootId),
              !.filesTabHidden = (roots = <<>>),
              !.loaded = "ok", !.served = j.config.fileRoots]

\* a server without resources
SkEmpty == [waypoints |-> {}, routes |-> {}]

\* fetchResources('waypoints') and fetchResources('routes') of refresh()
fetched(c, store) ==
    [c EXCEPT !.resources["waypoints"] = store.waypoints,
              !.resources["routes"] = store.routes]

\* hasFileRoots()
hasFileRoots(c) == c.fileRoots # <<>>

\* the name of an item, which the filter text is searched in
ItemName(it) == IF it % 2 = 0 THEN "a" ELSE "b"

\* getItemsForTab: the items of the active tab, in the order of their ids
RECURSIVE Ascending(_)
Ascending(ids) ==
    IF ids = {} THEN <<>>
    ELSE LET least == CHOOSE x \in ids : \A y \in ids : x <= y
         IN  <<least>> \o Ascending(ids \ {least})
getItemsForTab(c) == Ascending(c.resources[c.tab])

\* applyFilters: an empty text keeps every item
applyFilters(c, list) ==
    SelectSeq(list, LAMBDA it : c.filterText = "" \/ ItemName(it) = c.filterText)

\* applySort: a sorted copy, ascending or descending
applySort(c, list) ==
    IF c.sortOrder = "asc" THEN SortSeq(list, LAMBDA a, b : a < b)
    ELSE SortSeq(list, LAMBDA a, b : a > b)

Min(a, b) == IF a < b THEN a ELSE b
Max(a, b) == IF a > b THEN a ELSE b
Ceil(n, d) == (n + d - 1) \div d
Slice(list, from, to) == SubSeq(list, from + 1, Min(to, Len(list)))

\* paginate without the clamp of the page
paginateUnclamped(list, page, size) ==
    LET totalPages == Max(1, Ceil(Len(list), size))
        start == (page - 1) * size
    IN  [page |-> page, totalPages |-> totalPages, items |-> Slice(list, start, start + size)]

\* paginate(list, page, size)
paginate(list, page, size) ==
    LET totalPages == Max(1, Ceil(Len(list), size))
        current == Min(Max(page, 1), totalPages)
        start == (current - 1) * size
    IN  [page |-> current, totalPages |-> totalPages,
         items |-> Slice(list, start, start + size)]

\* computePageSize(tab): the rows that fit the table, one at least
computePageSize(c) == Max(1, c.viewRows)

\* render(): the part that fills the table and the pager
render(c) ==
    LET list == applySort(c, applyFilters(c, getItemsForTab(c)))
        pageSize == computePageSize(c)
        paged == paginate(list, c.page[c.tab], pageSize)
    IN  [c EXCEPT !.pageSize[c.tab] = pageSize, !.page[c.tab] = paged.page,
                  !.rows = paged.items, !.totalPages = paged.totalPages,
                  !.prevDisabled = (paged.page <= 1),
                  !.nextDisabled = (paged.page >= paged.totalPages)]

\* liveSocket && (readyState === OPEN || readyState === CONNECTING)
SocketReady(c) ==
    c.liveSocket # 0 /\ c.sockets[c.liveSocket].readyState \in {"CONNECTING", "OPEN"}

\* monitorWS(): one interval, the former one cleared
monitorWS(c) == [c EXCEPT !.liveSocketMonitor = TRUE]

\* connectWS without its first line
connectWSAlways(c) ==
    monitorWS([c EXCEPT !.sockets = Append(@, [readyState |-> "CONNECTING", events |-> <<>>]),
                        !.liveSocket = Len(c.sockets) + 1])

\* connectWS(isRetry)
connectWS(c) ==
    IF SocketReady(c) THEN c
    ELSE monitorWS([c EXCEPT !.sockets = Append(@, [readyState |-> "CONNECTING",
                                                    events |-> <<>>]),
                             !.liveSocket = Len(c.sockets) + 1])

\* ws.onerror and ws.onclose of the socket numbered k
onerror(c, k) == IF c.liveSocket = k THEN [c EXCEPT !.liveSocket = 0] ELSE c
onclose(c, k) ==
    [c EXCEPT !.liveSocket = IF @ = k THEN 0 ELSE @, !.retryTimers = @ + 1]

\* hideProgress(), beginProgress(text, opts), cancelProgress()
hideProgress(c) == [c EXCEPT !.overlayHidden = TRUE, !.controller = "null"]
beginProgress(c) ==
    [c EXCEPT !.controller = "ctrl", !.overlayHidden = FALSE, !.bulk.aborted = FALSE]
cancelProgress(c) ==
    hideProgress(IF c.controller = "ctrl" THEN [c EXCEPT !.bulk.aborted = TRUE] ELSE c)

\* a loop that never looks at the signal
LoopNeverThrows(b) == FALSE

\* the head of bulkDelete's loop: if (ctrl.signal.aborted) throw
LoopThrows(b) == b.aborted

\* bulkDelete() up to its loop
bulkDeleteBegin(c) ==
    LET keys == Ascending(c.selected)
    IN  [beginProgress(c) EXCEPT !.bulk.phase = "loop", !.bulk.keys = keys, !.bulk.i = 1,
                                 !.bulk.requests = <<>>, !.bulk.outcome = "none"]

\* one turn of the loop: past the last key it goes on to refresh(); a
\* throw is caught and the finally clause hides the overlay; otherwise the
\* DELETE of deleteResource is sent
bulkDeleteLoop(c) ==
    IF c.bulk.i > Len(c.bulk.keys)
    THEN [c EXCEPT !.selected = {}, !.bulk.phase = "refresh"]
    ELSE IF LoopThrows(c.bulk)
    THEN hideProgress([c EXCEPT !.bulk.phase = "idle", !.bulk.outcome = "cancelled"])
    ELSE [c EXCEPT !.bulk.phase = "inflight",
                   !.bulk.requests = Append(@, c.bulk.keys[c.bulk.i])]

\* the DELETE is answered: deleteResource unselects the item and refreshes
\* after a 2xx status, swallows any error, and the loop goes on
bulkDeleteAnswered(c, ok, store) ==
    LET id == c.bulk.keys[c.bulk.i]
        d == IF ok THEN render(fetched([c EXCEPT !.selected = @ \ {id}], store)) ELSE c
    IN  [d EXCEPT !.bulk.phase = "loop", !.bulk.i = @ + 1]

\* after the loop: refresh(), then the finally clause
bulkDeleteEnd(c, store) ==
    hideProgress([render(fetched(c, store)) EXCEPT !.bulk.phase = "idle",
                                                   !.bulk.outcome = "done"])

\* no download is streaming
ZipIdle ==
    [phase |-> "idle", proc |-> "none", code |-> 0, signalled |-> FALSE,
     errorPending |-> FALSE, stdout |-> "none", closeEmitted |-> FALSE,
     statusCode |-> 200, headersSent |-> FALSE, status |-> 0, sent |-> 0,
     text |-> "", ended |-> FALSE, closed |-> FALSE,
     target |-> <<>>, unhandled |-> FALSE]

\* The directory branch of the download handler.  The record z holds the
\* archiver (proc, its exit code, whether SIGTERM was sent to it, its stdout)
\* and the response (statusCode as set, the status and the number of chunks
\* that went out, a text written into the body, ended, closed).

\* spawn('zip', ['-r', '-', base], { cwd }): the process runs, or it could
\* not be started and 'error' will be emitted on the next tick
ZipSpawn(z, ok) ==
    [z EXCEPT !.phase = "open", !.stdout = "open",
              !.proc = IF ok THEN "running" ELSE "nospawn",
              !.code = IF ok THEN 0 ELSE -2,
              !.errorPending = ~ok]

\* res.write(chunk) by the pipe: the first write sends the header
PipeData(z) ==
    IF z.closed \/ z.ended THEN z
    ELSE [z EXCEPT !.headersSent = TRUE,
                   !.status = IF z.headersSent THEN @ ELSE z.statusCode,
                   !.sent = @ + 1]

\* res.end(msg): sends the header when it has not gone out, then msg
ResEnd(z, msg) ==
    IF z.closed \/ z.ended THEN z
    ELSE [z EXCEPT !.headersSent = TRUE,
                   !.status = IF z.headersSent THEN @ ELSE z.statusCode,
                   !.text = msg, !.ended = TRUE]

\* zip.stdout.pipe(res): stdout has ended, and the pipe ends the response
PipeEnd(z) == [ResEnd(z, "") EXCEPT !.stdout = "ended"]

\* fs.createReadStream(full).pipe(res) has been called: the file is opened
\* later, on the stream's first read
FileStream(full) == [ZipIdle EXCEPT !.phase = "file", !.target = full]

\* the read stream opens the file and is piped to its end, or it emits
\* 'error', for which neither the handler nor the pipe has a listener
FileOpened(f, z) ==
    IF IsFile(f, SegsOf(z.target))
    THEN [z EXCEPT !.stdout = "ended", !.headersSent = TRUE,
                   !.status = z.statusCode, !.sent = 1, !.ended = TRUE]
    ELSE [z EXCEPT !.stdout = "error", !.unhandled = TRUE]

\* res.on('close', () => zip.kill('SIGTERM')): the signal goes to a process
\* that is still running
OnResCloseNoKill(z) == z
OnResClose(z) == [z EXCEPT !.signalled = @ \/ z.proc = "running"]

\* zip.on('error', ...)
OnZipError(z) == ResEnd([z EXCEPT !.statusCode = 500], "zip error")

\* zip.on('close', (code) => ...)
OnZipClose(z) ==
    IF z.code # 0 /\ ~z.headersSent
    THEN ResEnd([z EXCEPT !.statusCode = 500], "zip exited")
    ELSE z

-----------------------------------------------------------------------------
(* POST /files/mkdir, /files/write, /files/rename, /files/delete *)

MkdirHandler(f, roots, req) ==
    LET rel == req.path IN
    IF rel = <<>> THEN Out(f, ErrRes(400, "Missing path"), <<>>)
    ELSE
    LET root == resolveRoot(roots, req.root)
        j == safeJoin(root.path, rel)
    IN  IF ~j.ok THEN Out(f, ErrRes(400, j.error), <<>>)
        ELSE
        LET m == Mkdirp(f, SegsOf(j.full))
            c1 == <<Call("mkdir", j.full)>>
        IN  IF ~m.ok THEN Out(f, ErrRes(400, m.error), c1)
            ELSE Out(m.fs, OkRes, c1)

\* the content stored as text whatever the encoding field says
DecodedAsText(content, encoding) == Utf8Encode(content)

\* what writeFile stores for the request's content and encoding
Decoded(content, encoding) ==
    IF encoding = "base64" THEN Base64Decode(content) ELSE Utf8Encode(content)

WriteHandler(f, roots, req) ==
    LET rel == req.path IN
    IF rel = <<>> THEN Out(f, ErrRes(400, "Missing path"), <<>>)
    ELSE IF ~req.hasContent THEN Out(f, ErrRes(400, "Missing content"), <<>>)
    ELSE
    LET root == resolveRoot(roots, req.root)
        j == safeJoin(root.path, rel)
    IN  IF ~j.ok THEN Out(f, ErrRes(400, j.error), <<>>)
        ELSE
        LET m == Mkdirp(f, SegsOf(Dirname(j.full)))
            c1 == <<Call("mkdir", Dirname(j.full))>>
        IN  IF ~m.ok THEN Out(f, ErrRes(400, m.error), c1)
            ELSE
            LET w == WriteFile(m.fs, SegsOf(j.full), Decoded(req.content, req.encoding))
                c2 == c1 \o <<Call("writeFile", j.full)>>
            IN  IF ~w.ok THEN Out(m.fs, ErrRes(400, w.error), c2)
                ELSE Out(w.fs, OkRes, c2)

\* a rename whose destination may lie in any configured root
RenameHandlerAnyRoot(f, roots, req) ==
    LET rel == req.path
        newRel == req.newPath
    IN
    IF rel = <<>> \/ newRel = <<>> THEN Out(f, ErrRes(400, "Missing path/newPath"), <<>>)
    ELSE
    LET root == resolveRoot(roots, req.root)
        js == safeJoin(root.path, rel)
        dst == PathResolve(root.path, Cleaned(ReplaceBackslashes(newRel)))
        dstOk == \E i \in 1..Len(roots) : ~Escapes(dst, PathResolve(roots[i].path, <<>>))
    IN  IF ~js.ok THEN Out(f, ErrRes(400, js.error), <<>>)
        ELSE IF ~dstOk THEN Out(f, ErrRes(400, TRAVERSAL), <<>>)
        ELSE
        LET m == Mkdirp(f, SegsOf(Dirname(dst)))
            c1 == <<Call("mkdir", Dirname(dst))>>
        IN  IF ~m.ok THEN Out(f, ErrRes(400, m.error), c1)
            ELSE
            LET r == Rename(m.fs, SegsOf(js.full), SegsOf(dst))
                c2 == c1 \o <<Call("rename", js.full), Call("rename", dst)>>
            IN  IF ~r.ok THEN Out(m.fs, ErrRes(400, r.error), c2)
                ELSE Out(r.fs, OkRes, c2)

RenameHandlerSrcOnly(f, roots, req) ==
    LET rel == req.path
        newRel == req.newPath
    IN
    IF rel = <<>> \/ newRel = <<>> THEN Out(f, ErrRes(400, "Missing path/newPath"), <<>>)
    ELSE
    LET root == resolveRoot(roots, req.root)
        js == safeJoin(root.path, rel)
        dst == PathResolve(root.path, Cleaned(ReplaceBackslashes(newRel)))
    IN  IF ~js.ok THEN Out(f, ErrRes(400, js.error), <<>>)
        ELSE
        LET m == Mkdirp(f, SegsOf(Dirname(dst)))
            c1 == <<Call("mkdir", Dirname(dst))>>
        IN  IF ~m.ok THEN Out(f, ErrRes(400, m.error), c1)
            ELSE
            LET r == Rename(m.fs, SegsOf(js.full), SegsOf(dst))
                c2 == c1 \o <<Call("rename", js.full), Call("rename", dst)>>
            IN  IF ~r.ok THEN Out(m.fs, ErrRes(400, r.error), c2)
                ELSE Out(r.fs, OkRes, c2)

RenameHandler(f, roots, req) ==
    LET rel == req.path
        newRel == req.newPath
    IN
    IF rel = <<>> \/ newRel = <<>> THEN Out(f, ErrRes(400, "Missing path/newPath"), <<>>)
    ELSE
    LET root == resolveRoot(roots, req.root)
        js == safeJoin(root.path, rel)
        jd == safeJoin(root.path, newRel)
    IN  IF ~js.ok THEN Out(f, ErrRes(400, js.error), <<>>)
        ELSE IF ~jd.ok THEN Out(f, ErrRes(400, jd.error), <<>>)
        ELSE
        LET m == Mkdirp(f, SegsOf(Dirname(jd.full)))
            c1 == <<Call("mkdir", Dirname(jd.full))>>
        IN  IF ~m.ok THEN Out(f, ErrRes(400, m.error), c1)
            ELSE
            LET r == Rename(m.fs, SegsOf(js.full), SegsOf(jd.full))
                c2 == c1 \o <<Call("rename", js.full), Call("rename", jd.full)>>
            IN  IF ~r.ok THEN Out(m.fs, ErrRes(400, r.error), c2)
                ELSE Out(r.fs, OkRes, c2)

DeleteHandler(f, roots, req) ==
    LET rel == req.path IN
    IF rel = <<>> THEN Out(f, ErrRes(400, "Missing path"), <<>>)
    ELSE
    LET root == resolveRoot(roots, req.root)
        j == safeJoin(root.path, rel)
    IN  IF ~j.ok THEN Out(f, ErrRes(400, j.error), <<>>)
        ELSE
        LET p == SegsOf(j.full)
            c1 == <<Call("stat", j.full)>>
        IN  IF ~Exists(f, p) THEN Out(f, ErrRes(400, StatErr(f, p)), c1)
            ELSE IF IsDir(f, p)
            THEN LET c2 == c1 \o <<Call("readdir", j.full)>> IN
                 IF Names(f, p) # {} THEN Out(f, ErrRes(400, "Directory not empty"), c2)
                 ELSE LET r == Rmdir(f, p)
                          c3 == c2 \o <<Call("rmdir", j.full)>>
                      IN  IF ~r.ok THEN Out(f, ErrRes(400, r.error), c3)
                          ELSE Out(r.fs, OkRes, c3)
            ELSE LET u == Unlink(f, p)
                     c2 == c1 \o <<Call("unlink", j.full)>>
                 IN  IF ~u.ok THEN Out(f, ErrRes(400, u.error), c2)
                     ELSE Out(u.fs, OkRes, c2)

\* /files/delete up to the await after stat: the answer, when the handler
\* returns before it, or the branch it takes
DeleteStat(f, roots, req) ==
    LET rel == req.path
        early(res, calls) == [done |-> TRUE, res |-> res, calls |-> calls,
                              target |-> <<>>, isDir |-> FALSE]
    IN
    IF rel = <<>> THEN early(ErrRes(400, "Missing path"), <<>>)
    ELSE
    LET root == resolveRoot(roots, req.root)
        j == safeJoin(root.path, rel)
    IN  IF ~j.ok THEN early(ErrRes(400, j.error), <<>>)
        ELSE
        LET p == SegsOf(j.full)
            c1 == <<Call("stat", j.full)>>
        IN  IF ~Exists(f, p) THEN early(ErrRes(400, StatErr(f, p)), c1)
            ELSE [done |-> FALSE, res |-> Res0, calls |-> c1,
                  target |-> j.full, isDir |-> IsDir(f, p)]

\* fsp.readdir(target) and the test of entries.length
DeleteReaddir(f, target) ==
    LET p == SegsOf(target)
        c == <<Call("readdir", target)>>
    IN  IF ~Exists(f, p) THEN [done |-> TRUE, res |-> ErrRes(400, StatErr(f, p)), calls |-> c]
        ELSE IF IsFile(f, p) THEN [done |-> TRUE, res |-> ErrRes(400, "ENOTDIR"), calls |-> c]
        ELSE IF Names(f, p) # {}
        THEN [done |-> TRUE, res |-> ErrRes(400, "Directory not empty"), calls |-> c]
        ELSE [done |-> FALSE, res |-> Res0, calls |-> c]

\* fsp.rmdir(target), or fsp.unlink(target), and the answer
DeleteRemove(f, target, isDir) ==
    LET p == SegsOf(target)
        r == IF isDir THEN Rmdir(f, p) ELSE Unlink(f, p)
        c == <<Call(IF isDir THEN "rmdir" ELSE "unlink", target)>>
    IN  IF ~r.ok THEN Out(f, ErrRes(400, r.error), c)
        ELSE Out(r.fs, OkRes, c)

-----------------------------------------------------------------------------
(* POST /files/upload: the callbacks of one request share the closure      *)
(* variables dirRel and saved, and req.rootId.                             *)

UPLOAD_BIN == <<"u", "p", "l", "o", "a", "d", ".", "b", "i", "n">>

\* normalizeString with allowAboveRoot, for a relative path
RECURSIVE NormalizeRelSegs(_, _)
NormalizeRelSegs(segs, stack) ==
    IF segs = <<>> THEN stack
    ELSE LET g == Head(segs) IN
         IF g = <<>> \/ g = DOT THEN NormalizeRelSegs(Tail(segs), stack)
         ELSE IF g = DOTDOT /\ stack # <<>> /\ stack[Len(stack)] # DOTDOT
              THEN NormalizeRelSegs(Tail(segs), SubSeq(stack, 1, Len(stack) - 1))
              ELSE NormalizeRelSegs(Tail(segs), Append(stack, g))

\* path.posix.join(a, b)
PosixJoin(a, b) ==
    LET joined == IF a = <<>> THEN b
                  ELSE IF b = <<>> THEN a ELSE a \o <<SEP>> \o b
    IN  IF joined = <<>> THEN DOT
        ELSE
        LET abs == IsAbsolute(joined)
            trail == joined[Len(joined)] = SEP
            body == JoinSegs(IF abs THEN NormalizeSegs(Split(joined), <<>>)
                             ELSE NormalizeRelSegs(Split(joined), <<>>))
            body2 == IF body = <<>> /\ ~abs THEN DOT ELSE body
            body3 == IF body2 # <<>> /\ trail THEN body2 \o <<SEP>> ELSE body2
        IN  IF abs THEN <<SEP>> \o body3 ELSE body3

Uploads == {1, 2}

UpIdle ==
    [phase |-> "idle", dirRel |-> <<>>, rootId |-> "", saved |-> <<>>,
     parts |-> <<>>, res |-> Res0]

\* bb.on('field')
SetFieldShared(ups, u, name, val) ==
    [v \in DOMAIN ups |->
        IF name = "dir" THEN [ups[v] EXCEPT !.dirRel = val]
        ELSE IF name = "root" THEN [ups[v] EXCEPT !.rootId = val]
        ELSE ups[v]]
SetField(ups, u, name, val) ==
    IF name = "dir" THEN [ups EXCEPT ![u].dirRel = val]
    ELSE IF name = "root" THEN [ups EXCEPT ![u].rootId = val]
    ELSE ups

FILE_SIZE_LIMIT == 52428800   \* limits: { fileSize: 50 * 1024 * 1024 }

\* info.filename as busboy hands it over for a declared filename: with
\* preservePath left off, what follows the last "/" or "\", and nothing
\* when that is "." or ".."
RECURSIVE AfterLastSlash(_)
AfterLastSlash(s) ==
    IF \E i \in 1..Len(s) : s[i] \in {SEP, BSL}
    THEN AfterLastSlash(Tail(s)) ELSE s
InfoFilenameRaw(declared) == declared
InfoFilename(declared) ==
    LET b == AfterLastSlash(declared)
    IN  IF b \in {DOT, DOTDOT} THEN <<>> ELSE b

\* bb.on('file'), up to the call of ensureDir: the new part.  The file
\* stream ends at the size limit, and truncated tells that it did
FilePart(roots, upl, declared, content) ==
    LET filename == InfoFilename(declared)
        name == IF filename = <<>> THEN UPLOAD_BIN ELSE filename
        root == resolveRoot(roots, upl.rootId)
        j == safeJoin(root.path, upl.dirRel)
        cut == Len(content.data) + content.pad > FILE_SIZE_LIMIT
    IN  [declared |-> declared, filename |-> name, rootPath |-> root.path,
         dirFull |-> j.full, outPath |-> <<>>, data |-> content.data,
         pad |-> IF cut THEN FILE_SIZE_LIMIT - Len(content.data) ELSE content.pad,
         truncated |-> cut,
         stage |-> IF j.ok THEN "mkdir" ELSE "drained"]

\* fs.createWriteStream(outPath) opens the file with flag 'w'
OpenForWrite(f, p) ==
    IF IsDir(f, p) THEN FsErr(f, "EISDIR")
    ELSE IF ~Exists(f, Parent(p)) THEN FsErr(f, "ENOENT")
    ELSE IF IsFile(f, Parent(p)) THEN FsErr(f, "ENOTDIR")
    ELSE FsOk([q \in DOMAIN f \cup {p} |->
                  IF q = p THEN FileNode(<<>>, 0) ELSE f[q]])

\* the then-callback of ensureDir(dirFull), or its catch
DirDone(f, upl, i) ==
    LET part == upl.parts[i]
        m == Mkdirp(f, SegsOf(part.dirFull))
        c1 == <<Call("mkdir", part.dirFull)>>
    IN  IF ~m.ok
        THEN [fs |-> f, calls |-> c1,
              upl |-> [upl EXCEPT !.parts[i].stage = "drained"]]
        ELSE
        LET base == Basename(part.filename)
            outPath == PathJoin(part.dirFull, base)
            o == OpenForWrite(m.fs, SegsOf(outPath))
        IN  [fs |-> o.fs, calls |-> c1 \o <<Call("createWriteStream", outPath)>>,
             upl |-> [upl EXCEPT
                        !.saved = Append(@, PosixJoin(ReplaceBackslashes(upl.dirRel), base)),
                        !.parts[i].outPath = outPath,
                        !.parts[i].stage = IF o.ok THEN "writing" ELSE "failed"]]

-----------------------------------------------------------------------------
(* Inputs *)

P_EMPTY == <<>>
P_DOT == <<".">>
P_D == <<"d">>
P_DA == <<"d", "/", "a">>
P_A == <<"a">>
P_ESC == <<".", ".", "/", "s", "/", "a">>
P_BACK == <<"d", BSL, ".", ".", BSL, "B">>

\* file names by the preview they get
N_TXT == <<"a", ".", "t", "x", "t">>
N_PNG == <<"a", ".", "P", "N", "G">>
N_PDF == <<"a", ".", "p", "d", "f">>
N_MP3 == <<"a", ".", "m", "p", "3">>
N_BIN == <<"a", ".", "b", "i", "n">>
N_HIDDEN == <<".", "t", "x", "t">>

ReqPaths == {P_EMPTY, P_DOT, P_D, P_DA, P_A, P_ESC, P_BACK}

ROOT_R == <<"/", "r">>
ROOT_S == <<"/", "s">>

OptNone == [remoteFileRoot |-> <<>>, additionalFileRoots |-> <<>>]
OptTwo ==
    [remoteFileRoot |-> ROOT_R,
     additionalFileRoots |-> <<[label |-> <<>>, path |-> <<>>],
                               [label |-> <<>>, path |-> ROOT_S]>>]
Options == {OptNone, OptTwo}

\* /r holds the directory d and the files a and B; /s holds the file d
Seg(c) == <<c>>
FsBare == (<<>> :> DirNode)
FsSeeded ==
    (<<>> :> DirNode) @@ (<<Seg("r")>> :> DirNode) @@ (<<Seg("s")>> :> DirNode)
    @@ (<<Seg("r"), Seg("d")>> :> DirNode)
    @@ (<<Seg("r"), Seg("a")>> :> FileNode(<<120>>, 0))
    @@ (<<Seg("r"), Seg("B")>> :> FileNode(<<121>>, 0))
    @@ (<<Seg("s"), Seg("d")>> :> FileNode(<<120>>, 0))
InitFs == {FsBare, FsSeeded}

MkReq(op, root, path) ==
    [op |-> op, root |-> root, path |-> path, newPath |-> <<>>, content |-> <<>>,
     hasContent |-> FALSE, encoding |-> "", step |-> "", u |-> 0]

\* every path on the first root, some on a named root, one with an unknown id
SimpleReqs(op) ==
    {MkReq(op, "", p) : p \in ReqPaths}
    \cup {MkReq(op, "extra-1", p) : p \in {P_D, P_DA}}
    \cup {MkReq(op, "zz", P_A)}

WithContent(req, content, encoding) ==
    [req EXCEPT !.content = content, !.encoding = encoding, !.hasContent = TRUE]

WriteReqs ==
    {WithContent(r, <<"x">>, "utf8") : r \in SimpleReqs("write")}
    \cup {WithContent(MkReq("write", "", P_A), <<"e", "Q", "=", "=">>, "base64")}
    \cup {MkReq("write", "", P_A)}

RenameReqs ==
    {[MkReq("rename", "", p) EXCEPT !.newPath = n] :
        p \in {P_DOT, P_D, P_A, P_ESC}, n \in {P_DOT, P_DA, P_ESC, P_BACK}}
    \cup {[MkReq("rename", "extra-1", P_D) EXCEPT !.newPath = P_A],
          [MkReq("rename", "zz", P_A) EXCEPT !.newPath = P_D],
          [MkReq("rename", "", P_A) EXCEPT !.newPath = <<>>]}

FieldVals == {<<"dir", P_ESC>>, <<"root", "extra-1">>}
Filenames == {<<".", ".", "/", "B">>}
PartData == {FileNode(<<120>>, 0)}

UpReq(u, step, upl) ==
    [MkReq("upload", upl.rootId, upl.dirRel) EXCEPT !.step = step, !.u = u]

Last0 == [req |-> MkReq("none", "", <<>>), res |-> Res0, calls |-> <<>>,
          rootPath |-> <<>>]

\* no read and no delete request is between two awaits
RdIdle ==
    [phase |-> "idle", req |-> MkReq("none", "", <<>>), full |-> <<>>, size |-> 0,
     calls |-> <<>>]
DlIdle ==
    [phase |-> "idle", req |-> MkReq("none", "", <<>>), target |-> <<>>,
     isDir |-> FALSE, calls |-> <<>>]

-----------------------------------------------------------------------------
(* POST /goto and POST /show.  A JSON value of the request body is null    *)
(* (or absent), a number or a string; names and ids are strings.           *)

JsNull == [t |-> "null"]
JsNaN == [t |-> "nan"]
JsNum(n) == [t |-> "num", v |-> n]
JsStr(s) == [t |-> "str", v |-> s]

DIGITS == <<"0", "1", "2", "3", "4", "5", "6", "7", "8", "9">>
IsDigit(c) == \E i \in 1..10 : DIGITS[i] = c
DigitVal(c) == (CHOOSE i \in 1..10 : DIGITS[i] = c) - 1
RECURSIVE DigitsVal(_)
DigitsVal(s) ==
    IF s = <<>> THEN 0
    ELSE 10 * DigitsVal(SubSeq(s, 1, Len(s) - 1)) + DigitVal(s[Len(s)])

\* Number(x) for a number, a string of digits, the empty string, any other
\* string, and null
ToNumber(x) ==
    IF x.t = "num" THEN x
    ELSE IF x.t = "null" THEN JsNum(0)
    ELSE IF x.t = "str" /\ \A i \in 1..Len(x.v) : IsDigit(x.v[i])
    THEN JsNum(DigitsVal(x.v))
    ELSE JsNaN

\* encodeURIComponent over the characters of the ids
RECURSIVE encodeURIComponent(_)
encodeURIComponent(s) ==
    IF s = <<>> THEN <<>>
    ELSE (IF Head(s) = "/" THEN <<"%", "2", "F">>
          ELSE IF Head(s) = " " THEN <<"%", "2", "0">>
          ELSE <<Head(s)>>) \o encodeURIComponent(Tail(s))

WAYPOINT == <<"W", "a", "y", "p", "o", "i", "n", "t">>
MISSING_POSITION == "Missing waypoint.position.{latitude,longitude}"
PLUGIN_ID == "signalk-mydata-plugin"

\* wp.name || wp.id || 'Waypoint'
NameOf(wp) ==
    IF wp.name # <<>> THEN wp.name ELSE IF wp.id # <<>> THEN wp.id ELSE WAYPOINT

\* wp.id ? `/signalk/v2/api/resources/waypoints/${encodeURIComponent(wp.id)}` : null
HrefNone(wp) == <<>>
Href(wp) ==
    IF wp.id # <<>>
    THEN <<"/signalk/v2/api/resources/waypoints/">> \o encodeURIComponent(wp.id)
    ELSE <<>>

Destination(wp) ==
    [name |-> NameOf(wp), href |-> Href(wp),
     position |-> [latitude |-> ToNumber(wp.latitude),
                   longitude |-> ToNumber(wp.longitude)]]

\* the delta of the fallback: position, name, and href when there is one
GotoDelta(wp) ==
    [context |-> "vessels.self",
     source |-> [label |-> PLUGIN_ID, type |-> "plugin"],
     values |->
        <<[path |-> "navigation.courseRhumbline.nextPoint.position",
           value |-> [latitude |-> ToNumber(wp.latitude),
                      longitude |-> ToNumber(wp.longitude)]],
          [path |-> "navigation.courseRhumbline.nextPoint.name",
           value |-> NameOf(wp)]>>
        \o (IF Href(wp) # <<>>
            THEN <<[path |-> "navigation.courseRhumbline.nextPoint.href",
                    value |-> Href(wp)]>>
            ELSE <<>>)]

\* what a handler did to the app, and its answer: the deltas it handed to
\* app.handleMessage, the destinations it handed to app.setDestination, and
\* the body, { ok: true }, { ok: false, error } or { result: ... }
NavOut(status, body, error, deltas, dests, msg) ==
    [status |-> status, body |-> body, error |-> error, deltas |-> deltas,
     destinations |-> dests, lastMessage |-> msg]

\* router.post('/goto'): courseApi tells whether app.setDestination is a
\* function, and accepted whether that call returns (or resolves)
GotoHandler(courseApi, accepted, req, lastMessage) ==
    LET wp == req.waypoint IN
    IF ~req.hasWaypoint \/ ~wp.hasPosition
       \/ wp.latitude = JsNull \/ wp.longitude = JsNull
    THEN NavOut(400, "error", MISSING_POSITION, <<>>, <<>>, lastMessage)
    ELSE IF courseApi
    THEN IF accepted
         THEN NavOut(200, "ok", "", <<>>, <<Destination(wp)>>, "course api")
         ELSE NavOut(500, "error", "setDestination", <<>>, <<Destination(wp)>>,
                     lastMessage)
    ELSE NavOut(200, "ok", "", <<GotoDelta(wp)>>, <<>>, "delta fallback")

\* router.post(`/plugins/${plugin.id}/show`): the waypoint is read, and the
\* answer is { result: { message: 'ok' } }
ShowHandler(req, lastMessage) ==
    NavOut(200, "result", "", <<>>, <<>>, lastMessage)

NoWaypoint ==
    [hasPosition |-> FALSE, latitude |-> JsNull, longitude |-> JsNull,
     name |-> <<>>, id |-> <<>>]
NavReq(op, has, wp) == [op |-> op, hasWaypoint |-> has, waypoint |-> wp]
NavIdle(courseApi) ==
    [courseApi |-> courseApi, req |-> NavReq("none", FALSE, NoWaypoint),
     out |-> NavOut(0, "none", "", <<>>, <<>>, ""), count |-> 0]

-----------------------------------------------------------------------------
(* The state machine *)

Init ==
    /\ started = FALSE
    /\ options = OptNone
    /\ fileRoots = <<>>
    /\ fs \in InitFs
    /\ last = Last0
    /\ up = [u \in Uploads |-> UpIdle]
    /\ nreq = 0
    /\ gRoot = <<>>
    /\ gRel = <<>>
    /\ gRes = [ok |-> FALSE, full |-> <<>>, error |-> "none"]
    /\ rd = RdIdle
    /\ dl = DlIdle
    /\ zip = ZipIdle
    /\ unsubscribes = <<>>
    /\ client = ClientIdle
    /\ sk = SkEmpty
    /\ nav = NavIdle(FALSE)

guardVars == <<gRoot, gRel, gRes>>
stepVars == <<rd, dl, zip, nav, unsubscribes, client, sk>>

MaxStarts == 3

\* options && options.interval > 0
Debounced(opt) == "interval" \in DOMAIN opt /\ opt.interval > 0

\* the subscription start makes: the debounced position stream, or its
\* first value only; calls counts the invocations of its unsubscribe function
Subscription(opt) ==
    [kind |-> IF Debounced(opt) THEN "debounce" ELSE "take",
     active |-> TRUE, calls |-> 0]

\* plugin.start(options)
Start(opts) ==
    /\ ~started
    /\ Len(unsubscribes) < MaxStarts
    /\ \E opt \in opts :
         /\ options' = opt
         /\ fileRoots' = BuildFileRoots(opt)
         /\ unsubscribes' = Append(unsubscribes, Subscription(opt))
    /\ started' = TRUE
    /\ UNCHANGED <<fs, last, up, nreq, guardVars, rd, dl, zip, nav, client, sk>>

\* the unsubscribe function of a subscription is invoked
Unsubscribed(sub) == [sub EXCEPT !.active = FALSE, !.calls = @ + 1]

\* plugin.stop(): unsubscribes.forEach(f => f())
Stop ==
    /\ started
    /\ started' = FALSE
    /\ unsubscribes' = [i \in 1..Len(unsubscribes) |-> Unsubscribed(unsubscribes[i])]
    /\ UNCHANGED <<options, fileRoots, fs, last, up, nreq, guardVars, rd, dl, zip, nav, client, sk>>

\* a position of the vessel arrives: a stream cut by take(1) ends with it
PositionValue ==
    /\ \E i \in 1..Len(unsubscribes) :
          unsubscribes[i].active /\ unsubscribes[i].kind = "take"
    /\ unsubscribes' =
          [i \in 1..Len(unsubscribes) |->
              IF unsubscribes[i].kind = "take"
              THEN [unsubscribes[i] EXCEPT !.active = FALSE]
              ELSE unsubscribes[i]]
    /\ UNCHANGED <<started, options, fileRoots, fs, last, up, nreq, guardVars, rd, dl,
                   zip, nav, client, sk>>

Handled(req, o) ==
    /\ fs' = o.fs
    /\ last' = [req |-> req, res |-> o.res, calls |-> o.calls,
                rootPath |-> resolveRoot(fileRoots, req.root).path]
    /\ nreq' = nreq + 1
    /\ UNCHANGED <<started, options, fileRoots, up, guardVars, stepVars>>

CanRequest == started /\ nreq < MaxReq

List(reqs) ==
    /\ CanRequest
    /\ \E req \in reqs :
         \E order \in ListOrders(fs, fileRoots, req) :
            Handled(req, ListHandler(fs, fileRoots, req, order))

Read(reqs) ==
    /\ CanRequest
    /\ \E req \in reqs : Handled(req, ReadHandler(fs, fileRoots, req))

Download(reqs) ==
    /\ CanRequest
    /\ \E req \in reqs :
         Handled(req, DownloadHandler(fs, fileRoots, req))

Mkdir(reqs) ==
    /\ CanRequest
    /\ \E req \in reqs : Handled(req, MkdirHandler(fs, fileRoots, req))

Write(reqs) ==
    /\ CanRequest
    /\ \E req \in reqs : Handled(req, WriteHandler(fs, fileRoots, req))

RenameReq(reqs) ==
    /\ CanRequest
    /\ \E req \in reqs : Handled(req, RenameHandler(fs, fileRoots, req))

Delete(reqs) ==
    /\ CanRequest
    /\ \E req \in reqs : Handled(req, DeleteHandler(fs, fileRoots, req))

\* router.post('/files/upload'): the request arrives
UploadBegin(u) ==
    /\ CanRequest
    /\ up[u].phase = "idle"
    /\ up' = [up EXCEPT ![u].phase = "open"]
    /\ nreq' = nreq + 1
    /\ UNCHANGED <<started, options, fileRoots, fs, last, guardVars, stepVars>>

UploadField(u, fields) ==
    /\ up[u].phase = "open"
    /\ \E fv \in fields : up' = SetField(up, u, fv[1], fv[2])
    /\ UNCHANGED <<started, options, fileRoots, fs, last, nreq, guardVars, stepVars>>

\* a request carries each of its files once
UploadFile(u, names, contents) ==
    /\ up[u].phase = "open"
    /\ Len(up[u].parts) < MaxParts
    /\ \E fn \in names, d \in contents :
         /\ \A i \in 1..Len(up[u].parts) : up[u].parts[i].declared # fn
         /\ up' = [up EXCEPT ![u].parts = Append(@, FilePart(fileRoots, up[u], fn, d))]
    /\ UNCHANGED <<started, options, fileRoots, fs, last, nreq, guardVars, stepVars>>

UploadDirDone(u) ==
    /\ up[u].phase # "idle"
    /\ \E i \in 1..Len(up[u].parts) :
         /\ up[u].parts[i].stage = "mkdir"
         /\ LET o == DirDone(fs, up[u], i) IN
              /\ fs' = o.fs
              /\ up' = [up EXCEPT ![u] = o.upl]
              /\ last' = [req |-> UpReq(u, "dir", up[u]), res |-> Res0,
                          calls |-> o.calls, rootPath |-> up[u].parts[i].rootPath]
    /\ UNCHANGED <<started, options, fileRoots, nreq, guardVars, stepVars>>

\* the part's bytes have been piped into the write stream
UploadWritten(u) ==
    /\ up[u].phase # "idle"
    /\ \E i \in 1..Len(up[u].parts) :
         /\ up[u].parts[i].stage = "writing"
         /\ LET p == SegsOf(up[u].parts[i].outPath) IN
              fs' = IF IsFile(fs, p)
                    THEN [fs EXCEPT ![p] = FileNode(up[u].parts[i].data,
                                                  up[u].parts[i].pad)]
                    ELSE fs
         /\ up' = [up EXCEPT ![u].parts[i].stage = "saved"]
         /\ last' = [req |-> UpReq(u, "written", up[u]), res |-> Res0,
                     calls |-> <<Call("write", up[u].parts[i].outPath)>>,
                     rootPath |-> up[u].parts[i].rootPath]
    /\ UNCHANGED <<started, options, fileRoots, nreq, guardVars, stepVars>>

\* bb.on('finish'): busboy ends the form when every file stream has been
\* read to its end, that is piped into its write stream or resumed
UploadFinish(u) ==
    /\ up[u].phase = "open"
    /\ \A i \in 1..Len(up[u].parts) : up[u].parts[i].stage # "mkdir"
    /\ LET res == [OkRes EXCEPT !.saved = up[u].saved] IN
         /\ up' = [up EXCEPT ![u].phase = "done", ![u].res = res]
         /\ UNCHANGED <<started, options, fileRoots, fs, last, nreq, guardVars, stepVars>>

\* bb.on('error')
UploadError(u) ==
    /\ up[u].phase = "open"
    /\ LET res == ErrRes(400, "Malformed part header") IN
         /\ up' = [up EXCEPT ![u].phase = "done", ![u].res = res]
         /\ UNCHANGED <<started, options, fileRoots, fs, last, nreq, guardVars, stepVars>>

\* the answer of a request handled in several steps
Answered(req, res, calls) ==
    last' = [req |-> req, res |-> res, calls |-> calls,
             rootPath |-> resolveRoot(fileRoots, req.root).path]

\* router.get('/files/read') up to its second await
ReadBegin(reqs) ==
    /\ CanRequest
    /\ rd.phase = "idle"
    /\ \E req \in reqs :
         LET st == ReadStat(fs, fileRoots, req) IN
         IF st.done
         THEN Answered(req, st.res, st.calls) /\ rd' = rd
         ELSE /\ rd' = [phase |-> "reading", req |-> req, full |-> st.full,
                        size |-> st.size, calls |-> st.calls]
              /\ last' = last
    /\ nreq' = nreq + 1
    /\ UNCHANGED <<started, options, fileRoots, fs, up, guardVars, dl, zip, nav, unsubscribes, client, sk>>

\* readFile resolves or rejects, and the handler answers
ReadEnd ==
    /\ rd.phase = "reading"
    /\ LET o == ReadBody(fs, rd.full, rd.size) IN
         Answered(rd.req, o.res, rd.calls \o o.calls)
    /\ rd' = RdIdle
    /\ UNCHANGED <<started, options, fileRoots, fs, up, nreq, guardVars, dl, zip, nav, unsubscribes, client, sk>>

\* router.post('/files/delete') up to the await after stat
DeleteBegin(reqs) ==
    /\ CanRequest
    /\ dl.phase = "idle"
    /\ \E req \in reqs :
         LET st == DeleteStat(fs, fileRoots, req) IN
         IF st.done
         THEN Answered(req, st.res, st.calls) /\ dl' = dl
         ELSE /\ dl' = [phase |-> "statted", req |-> req, target |-> st.target,
                        isDir |-> st.isDir, calls |-> st.calls]
              /\ last' = last
    /\ nreq' = nreq + 1
    /\ UNCHANGED <<started, options, fileRoots, fs, up, guardVars, rd, zip, nav, unsubscribes, client, sk>>

\* st.isDirectory(): readdir resolves or rejects
DeleteScan ==
    /\ dl.phase = "statted" /\ dl.isDir
    /\ LET sc == DeleteReaddir(fs, dl.target) IN
         IF sc.done
         THEN Answered(dl.req, sc.res, dl.calls \o sc.calls) /\ dl' = DlIdle
         ELSE /\ dl' = [dl EXCEPT !.phase = "scanned", !.calls = @ \o sc.calls]
              /\ last' = last
    /\ UNCHANGED <<started, options, fileRoots, fs, up, nreq, guardVars, rd, zip, nav, unsubscribes, client, sk>>

\* rmdir or unlink resolves or rejects, and the handler answers
DeleteEnd ==
    /\ \/ dl.phase = "scanned"
       \/ dl.phase = "statted" /\ ~dl.isDir
    /\ LET o == DeleteRemove(fs, dl.target, dl.isDir) IN
         /\ fs' = o.fs
         /\ Answered(dl.req, o.res, dl.calls \o o.calls)
    /\ dl' = DlIdle
    /\ UNCHANGED <<started, options, fileRoots, up, nreq, guardVars, rd, zip, nav, unsubscribes, client, sk>>

MaxChunks == 2

\* router.get('/files/download') up to the end of its synchronous part: an
\* answer, or for a directory the archiver spawned and piped into the response
DownloadBegin(reqs) ==
    /\ CanRequest
    /\ \/ zip.phase = "idle"
       \/ zip.closeEmitted /\ zip.closed
       \/ zip.phase = "file" /\ (zip.ended \/ zip.unhandled)
    /\ \E req \in reqs, ok \in BOOLEAN :
         LET o == DownloadHandler(fs, fileRoots, req) IN
           /\ zip' = IF o.res.stream = "zip" THEN ZipSpawn(ZipIdle, ok)
                     ELSE IF o.res.stream = "file"
                     THEN FileStream(safeJoin(resolveRoot(fileRoots, req.root).path,
                                              req.path).full)
                     ELSE ZipIdle
           /\ last' = [req |-> req, calls |-> o.calls,
                       res |-> IF o.res.stream = "zip"
                               THEN [Res0 EXCEPT !.stream = "zip"] ELSE o.res,
                       rootPath |-> resolveRoot(fileRoots, req.root).path]
    /\ nreq' = nreq + 1
    /\ UNCHANGED <<started, options, fileRoots, fs, up, guardVars, rd, dl, nav, unsubscribes, client, sk>>

ZipStep(z) ==
    /\ zip' = z
    /\ UNCHANGED <<started, options, fileRoots, fs, last, up, nreq, guardVars, rd, dl, nav, unsubscribes, client, sk>>

\* the read stream of a file download opens its file
FileStreamOpen ==
    /\ zip.phase = "file" /\ zip.stdout = "none"
    /\ ZipStep(FileOpened(fs, zip))

\* the archiver writes a chunk to its stdout, and the pipe hands it on
ZipData ==
    /\ zip.phase = "open" /\ zip.stdout = "open" /\ zip.proc = "running"
    /\ ~zip.closed /\ zip.sent < MaxChunks
    /\ ZipStep(PipeData(zip))

\* the archiver exits by itself
ZipExit(codes) ==
    /\ zip.phase = "open" /\ zip.proc = "running"
    /\ \E c \in codes : ZipStep([zip EXCEPT !.proc = "exited", !.code = c])

\* the archiver is ended by the SIGTERM it was sent: no exit code
ZipKilled ==
    /\ zip.phase = "open" /\ zip.proc = "running" /\ zip.signalled
    /\ ZipStep([zip EXCEPT !.proc = "exited", !.code = -1])

\* 'error' of the child process, on the tick after a spawn that failed
ZipErrorEvent ==
    /\ zip.phase = "open" /\ zip.errorPending
    /\ ZipStep([OnZipError(zip) EXCEPT !.errorPending = FALSE])

\* 'end' of zip.stdout: after the process is gone and its output was read
ZipStdoutEnd ==
    /\ zip.phase = "open" /\ zip.stdout = "open"
    /\ zip.proc \in {"exited", "nospawn"} /\ ~zip.errorPending
    /\ ZipStep(PipeEnd(zip))

\* 'close' of the child process: after it ended and its stdio was closed
ZipCloseEvent ==
    /\ zip.phase = "open" /\ ~zip.closeEmitted
    /\ zip.proc \in {"exited", "nospawn"} /\ zip.stdout = "ended"
    /\ ZipStep([OnZipClose(zip) EXCEPT !.closeEmitted = TRUE])

\* 'close' of the response: the consumer is gone, or the response is over
ResClose ==
    /\ zip.phase = "open" /\ ~zip.closed
    /\ ZipStep(OnResClose([zip EXCEPT !.closed = TRUE]))

NavStep(req, out) ==
    /\ nav' = [nav EXCEPT !.req = req, !.out = out, !.count = @ + Len(out.deltas)]
    /\ nreq' = nreq + 1
    /\ UNCHANGED <<started, options, fileRoots, fs, last, up, guardVars, rd, dl, zip,
                   unsubscribes, client, sk>>

Goto(reqs) ==
    /\ CanRequest
    /\ \E req \in reqs, accepted \in BOOLEAN :
         NavStep(req, GotoHandler(nav.courseApi, accepted, req, nav.out.lastMessage))

Show(reqs) ==
    /\ CanRequest
    /\ \E req \in reqs : NavStep(req, ShowHandler(req, nav.out.lastMessage))

\* a step of the client alone
ClientStep(c) ==
    /\ client' = c
    /\ UNCHANGED <<started, options, fileRoots, fs, last, up, nreq, guardVars, rd, dl,
                   zip, nav, unsubscribes, sk>>

\* 'change' of a row's checkbox
ToggleSelect ==
    \E id \in client.resources[client.tab] :
        ClientStep(render([client EXCEPT !.selected =
                              IF id \in @ THEN @ \ {id} ELSE @ \union {id}]))

\* bulkDelete(): with write access, a selection and the user's confirmation
BulkDelete ==
    /\ client.bulk.phase = "idle"
    /\ client.overlayHidden
    /\ client.selected # {}
    /\ ClientStep(bulkDeleteBegin(client))

BulkLoop ==
    /\ client.bulk.phase = "loop"
    /\ ClientStep(bulkDeleteLoop(client))

\* the server answers the DELETE, having removed the resource or not
BulkAnswered ==
    /\ client.bulk.phase = "inflight"
    /\ \E ok \in BOOLEAN :
          LET id == client.bulk.keys[client.bulk.i]
              store == IF ok THEN [sk EXCEPT ![client.tab] = @ \ {id}] ELSE sk
          IN  /\ sk' = store
              /\ client' = bulkDeleteAnswered(client, ok, store)
    /\ UNCHANGED <<started, options, fileRoots, fs, last, up, nreq, guardVars, rd, dl,
                   zip, nav, unsubscribes>>

BulkEnd ==
    /\ client.bulk.phase = "refresh"
    /\ ClientStep(bulkDeleteEnd(client, sk))

\* 'click' of #btnCancelProgress: both listeners, in the order they were added
CancelClick ==
    /\ ~client.overlayHidden
    /\ ClientStep(hideProgress(cancelProgress(client)))

\* sockets per behaviour
MaxSockets == 3

\* connectWS makes no socket, or the behaviour has room for one more
CanConnect == SocketReady(client) \/ Len(client.sockets) < MaxSockets

\* boot(): its last line, connectWS()
Boot ==
    /\ ~client.liveSocketMonitor /\ client.sockets = <<>>
    /\ ClientStep(connectWS(client))

\* the connection of a socket is established: readyState OPEN, 'open' fires
SocketOpen ==
    \E k \in DOMAIN client.sockets :
        /\ client.sockets[k].readyState = "CONNECTING"
        /\ ClientStep([client EXCEPT !.sockets[k].readyState = "OPEN"])

\* the closing handshake of an open socket starts
SocketClosing ==
    \E k \in DOMAIN client.sockets :
        /\ client.sockets[k].readyState = "OPEN"
        /\ ClientStep([client EXCEPT !.sockets[k].readyState = "CLOSING"])

\* the connection of a socket is closed: readyState CLOSED, then 'error'
\* when it failed, then 'close'
SocketClosed ==
    \E k \in DOMAIN client.sockets, failed \in BOOLEAN :
        /\ client.sockets[k].readyState # "CLOSED"
        /\ failed \/ client.sockets[k].readyState # "CONNECTING"
        /\ ClientStep([client EXCEPT !.sockets[k].readyState = "CLOSED",
                          !.sockets[k].events =
                              IF failed THEN <<"error", "close">> ELSE <<"close">>])

\* the next queued event of a socket reaches its handler
SocketEvent ==
    \E k \in DOMAIN client.sockets :
        /\ client.sockets[k].events # <<>>
        /\ LET c == [client EXCEPT !.sockets[k].events = Tail(@)]
           IN  ClientStep(IF Head(client.sockets[k].events) = "error"
                          THEN onerror(c, k) ELSE onclose(c, k))

\* a retry timeout set by onclose expires: connectWS(true)
RetryTimer ==
    /\ client.retryTimers > 0
    /\ CanConnect
    /\ ClientStep(connectWS([client EXCEPT !.retryTimers = @ - 1]))

\* the health interval ticks
MonitorTick ==
    /\ client.liveSocketMonitor
    /\ ~SocketReady(client)
    /\ CanConnect
    /\ ClientStep(connectWS(client))

\* what the user and the server give the list
MaxItems == 4
ItemSets == {1..n : n \in 0..MaxItems}
FilterTexts == {"", "a", "z"}
ViewRows == {0, 1, 2}

\* the client fetches /config: the fetch fails, or loadConfig stores the answer
LoadConfig ==
    /\ started
    /\ \/ ClientStep([client EXCEPT !.loaded = "failed"])
       \/ ClientStep(loadConfig(client, ConfigBody(fileRoots)))

LoadConfigPublic ==
    /\ started
    /\ \/ ClientStep([client EXCEPT !.loaded = "failed"])
       \/ ClientStep(loadConfigPublic(client, ConfigBody(fileRoots)))

\* 'change' of #fileRootSelect: one of the options the client built
SelectRoot ==
    /\ \E k \in 1..Len(client.fileRoots) :
          ClientStep([client EXCEPT !.rootId = client.fileRoots[k].id])

\* 'click' of #btnPagePrev and of #btnPageNext; a disabled button does not click
PagePrev ==
    /\ ~client.prevDisabled
    /\ ClientStep(render([client EXCEPT !.page[client.tab] = Max(1, @ - 1)]))

PageNext ==
    /\ ~client.nextDisabled
    /\ ClientStep(render([client EXCEPT !.page[client.tab] = @ + 1]))

\* 'input' or 'change' of a filter or sort control
FilterChange ==
    \E q \in FilterTexts, o \in {"asc", "desc"} :
        /\ <<q, o>> # <<client.filterText, client.sortOrder>>
        /\ ClientStep(render([client EXCEPT !.filterText = q, !.sortOrder = o,
                                            !.page[client.tab] = 1]))

\* setTab(tab); the files tab needs a file root
setTab ==
    \E tab \in TABS :
        /\ ~(tab = "files" /\ ~hasFileRoots(client))
        /\ ClientStep(render([client EXCEPT !.tab = tab, !.page[tab] = 1]))

\* refresh(): both resource lists are fetched again, then render()
\* the server's resources are what they are by then
Refresh ==
    \E w \in ItemSets, r \in ItemSets :
        /\ sk' = [waypoints |-> w, routes |-> r]
        /\ client' = render(fetched(client, sk'))
        /\ UNCHANGED <<started, options, fileRoots, fs, last, up, nreq, guardVars, rd, dl,
                       zip, nav, unsubscribes>>

\* 'resize' of the window
Resize ==
    \E h \in ViewRows :
        /\ h # client.viewRows
        /\ ClientStep(render([client EXCEPT !.viewRows = h]))

ListReqs == SimpleReqs("list")
ReadReqs == SimpleReqs("read")
DownloadReqs == SimpleReqs("download")
MkdirReqs == SimpleReqs("mkdir")
DeleteReqs == SimpleReqs("delete")

Next ==
    \/ Start(Options)
    \/ List(ListReqs)
    \/ Read(ReadReqs)
    \/ Download(DownloadReqs)
    \/ Mkdir(MkdirReqs)
    \/ Write(WriteReqs)
    \/ RenameReq(RenameReqs)
    \/ Delete(DeleteReqs)

Spec == Init /\ [][Next]_vars

\* two upload requests at once, among a few other requests
FewReqs(op) == {MkReq(op, "", P_D), MkReq(op, "", P_ESC)}

InitConc == Init /\ fs = FsSeeded

ConcOptions == {OptTwo}
ConcListReqs == FewReqs("list")
ConcReadReqs == FewReqs("read")
ConcDownloadReqs == FewReqs("download")
ConcMkdirReqs == FewReqs("mkdir")
ConcWriteReqs == {WithContent(MkReq("write", "", P_DA), <<"x">>, "utf8")}
ConcRenameReqs ==
    {[MkReq("rename", "", P_D) EXCEPT !.newPath = P_A],
     [MkReq("rename", "", P_D) EXCEPT !.newPath = P_ESC]}
ConcDeleteReqs == FewReqs("delete")

NextConc ==
    \/ Start(ConcOptions)
    \/ List(ConcListReqs)
    \/ Read(ConcReadReqs)
    \/ Download(ConcDownloadReqs)
    \/ Mkdir(ConcMkdirReqs)
    \/ Write(ConcWriteReqs)
    \/ RenameReq(ConcRenameReqs)
    \/ Delete(ConcDeleteReqs)
    \/ \E u \in Uploads : UploadBegin(u)
    \/ \E u \in Uploads : UploadField(u, FieldVals)
    \/ \E u \in Uploads : UploadFile(u, Filenames, PartData)
    \/ \E u \in Uploads : UploadDirDone(u)
    \/ \E u \in Uploads : UploadWritten(u)
    \/ \E u \in Uploads : UploadFinish(u)
    \/ \E u \in Uploads : UploadError(u)

SpecConc == InitConc /\ [][NextConc]_vars

-----------------------------------------------------------------------------
(* Races: a read and a delete request, each taking its awaits one at a     *)
(* time, among write, mkdir, rename and upload requests on the same paths  *)

RaceFs == FsSeeded @@ (<<Seg("r"), N_TXT>> :> FileNode(<<120>>, 0))

InitRace ==
    /\ started = FALSE
    /\ options = OptNone
    /\ fileRoots = <<>>
    /\ fs = RaceFs
    /\ last = Last0
    /\ up = [u \in Uploads |-> UpIdle]
    /\ nreq = 0
    /\ gRoot = <<>>
    /\ gRel = <<>>
    /\ gRes = [ok |-> FALSE, full |-> <<>>, error |-> "none"]
    /\ rd = RdIdle
    /\ dl = DlIdle
    /\ zip = ZipIdle
    /\ unsubscribes = <<>>
    /\ client = ClientIdle
    /\ sk = SkEmpty
    /\ nav = NavIdle(FALSE)

RaceReadReqs == {MkReq("read", "", N_TXT)}
RaceDeleteReqs == {MkReq("delete", "", P_D), MkReq("delete", "", N_TXT)}
RaceWriteReqs ==
    {WithContent(MkReq("write", "", N_TXT), <<"x", "y">>, "utf8"),
     WithContent(MkReq("write", "", P_DA), <<"x">>, "utf8")}
RaceMkdirReqs == {MkReq("mkdir", "", P_DA)}
RaceRenameReqs ==
    {[MkReq("rename", "", N_TXT) EXCEPT !.newPath = P_DA],
     [MkReq("rename", "", P_D) EXCEPT !.newPath = N_TXT]}
RaceFields == {<<"dir", P_D>>}
RaceFilenames == {N_TXT}
RacePartData == {FileNode(<<120>>, PREVIEW_MAX)}

NextRace ==
    \/ Start(ConcOptions)
    \/ ReadBegin(RaceReadReqs)
    \/ ReadEnd
    \/ DeleteBegin(RaceDeleteReqs)
    \/ DeleteScan
    \/ DeleteEnd
    \/ Write(RaceWriteReqs)
    \/ Mkdir(RaceMkdirReqs)
    \/ RenameReq(RaceRenameReqs)
    \/ UploadBegin(1)
    \/ UploadField(1, RaceFields)
    \/ UploadFile(1, RaceFilenames, RacePartData)
    \/ UploadDirDone(1)
    \/ UploadWritten(1)
    \/ UploadFinish(1)
    \/ UploadError(1)

SpecRace == InitRace /\ [][NextRace]_vars

-----------------------------------------------------------------------------
(* Directories only: list, mkdir and delete on every path                  *)

NextDir ==
    \/ Start(Options)
    \/ List(ListReqs)
    \/ Mkdir(MkdirReqs)
    \/ Delete(DeleteReqs)

SpecDir == Init /\ [][NextDir]_vars

-----------------------------------------------------------------------------
(* The listing on its own: /files/list applied to every content of the     *)
(* root directory /r over a few names                                      *)

ListNames == {<<"a">>, <<"B">>, <<"b">>, <<"A", "b">>}
Kinds == {"none", "dir", "file"}

DirWith(content) ==
    [p \in {<<>>, <<Seg("r")>>} \cup {<<Seg("r"), n>> : n \in {m \in ListNames : content[m] # "none"}} |->
        IF Len(p) < 2 \/ content[p[2]] = "dir" THEN DirNode ELSE FileNode(<<120>>, 0)]

InitList ==
    /\ started = TRUE
    /\ options = OptTwo
    /\ fileRoots = BuildFileRoots(OptTwo)
    /\ \E content \in [ListNames -> Kinds] : fs = DirWith(content)
    /\ last = Last0
    /\ up = [u \in Uploads |-> UpIdle]
    /\ nreq = 0
    /\ gRoot = <<>>
    /\ gRel = <<>>
    /\ gRes = [ok |-> FALSE, full |-> <<>>, error |-> "none"]
    /\ rd = RdIdle
    /\ dl = DlIdle
    /\ zip = ZipIdle
    /\ unsubscribes = <<>>
    /\ client = ClientIdle
    /\ sk = SkEmpty
    /\ nav = NavIdle(FALSE)

RootListReqs == {MkReq("list", "", P_EMPTY), MkReq("list", "", P_A)}

NextList == List(RootListReqs)

SpecList == InitList /\ [][NextList]_vars

-----------------------------------------------------------------------------
(* Previews: /files/read applied to one file of every kind and size        *)

PreviewNames == {N_TXT, N_PNG, N_PDF, N_MP3, N_BIN, N_HIDDEN, P_A}

\* contents: empty, ASCII, U+00E9, a byte that is no UTF-8, a file of
\* exactly the ceiling's size and files above it
PreviewNodes ==
    {FileNode(<<>>, 0), FileNode(<<120, 121>>, 0), FileNode(<<195, 169>>, 0),
     FileNode(<<255>>, 0), FileNode(<<120>>, PREVIEW_MAX - 1),
     FileNode(<<120>>, PREVIEW_MAX), FileNode(<<>>, PREVIEW_MAX + 1048576)}

FsWithFile(name, node) ==
    (<<>> :> DirNode) @@ (<<Seg("r")>> :> DirNode) @@ (<<Seg("r"), name>> :> node)

InitRead ==
    /\ started = FALSE
    /\ options = OptNone
    /\ fileRoots = <<>>
    /\ \E name \in PreviewNames, node \in PreviewNodes : fs = FsWithFile(name, node)
    /\ last = Last0
    /\ up = [u \in Uploads |-> UpIdle]
    /\ nreq = 0
    /\ gRoot = <<>>
    /\ gRel = <<>>
    /\ gRes = [ok |-> FALSE, full |-> <<>>, error |-> "none"]
    /\ rd = RdIdle
    /\ dl = DlIdle
    /\ zip = ZipIdle
    /\ unsubscribes = <<>>
    /\ client = ClientIdle
    /\ sk = SkEmpty
    /\ nav = NavIdle(FALSE)

PreviewReqs == {MkReq("read", "", n) : n \in PreviewNames}

NextRead ==
    \/ Start(ConcOptions)
    \/ Read(PreviewReqs)

SpecRead == InitRead /\ [][NextRead]_vars

-----------------------------------------------------------------------------
(* Write, then read: the requests the app's editor sends and others        *)

\* the ext field of each entry of the client's TEXT_FILE_TYPES
TEXT_FILE_TYPES ==
    {<<"t", "x", "t">>, <<"h", "t", "m", "l">>, <<"j", "s", "o", "n">>,
     <<"x", "m", "l">>, <<"m", "d">>}

\* defaultFileNameForType: the name a new document of a type gets
defaultFileNameForType(ext) ==
    <<"n", "e", "w", "-", "f", "i", "l", "e", ".">> \o ext

N_JPG == <<"d", "/", "a", ".", "j", "p", "g">>
N_DEEP == <<"n", "/", "m", "/", "a", ".", "t", "x", "t">>
N_BELOW == <<"a", "/", "b", ".", "t", "x", "t">>

\* /r holds the directory d, the file a, and a file a.txt above the ceiling
RWFs ==
    (<<>> :> DirNode) @@ (<<Seg("r")>> :> DirNode) @@ (<<Seg("s")>> :> DirNode)
    @@ (<<Seg("r"), Seg("d")>> :> DirNode)
    @@ (<<Seg("r"), Seg("a")>> :> FileNode(<<120>>, 0))
    @@ (<<Seg("r"), N_TXT>> :> FileNode(<<121>>, PREVIEW_MAX))

RWTextPaths ==
    {defaultFileNameForType(e) : e \in TEXT_FILE_TYPES}
    \cup {N_TXT, N_PNG, N_DEEP, N_BELOW, P_A, P_D}
RWTexts == {<<>>, <<"x", "E9">>, <<"D800">>}
RWImagePaths == {N_PNG, N_JPG, N_TXT}
RWBytes == {<<>>, <<120>>, <<255, 0>>, <<1, 2, 3, 4>>}

\* every text to a.txt and one text to the other paths; every byte
\* sequence to the image paths and one to a.txt; an unpadded base64 text
\* and a content without an encoding
RWWriteReqs ==
    {WithContent(MkReq("write", "", N_TXT), c, "utf8") : c \in RWTexts}
    \cup {WithContent(MkReq("write", "", p), <<"x", "E9">>, "utf8") : p \in RWTextPaths}
    \cup {WithContent(MkReq("write", "", p), Base64Encode(b), "base64") :
             p \in {N_PNG, N_JPG}, b \in RWBytes}
    \cup {WithContent(MkReq("write", "", N_TXT), Base64Encode(<<120>>), "base64"),
          WithContent(MkReq("write", "", N_JPG), <<"e", "Q">>, "base64"),
          WithContent(MkReq("write", "", N_TXT), <<"x">>, "")}
RWReadReqs == {MkReq("read", "", p) : p \in RWTextPaths \cup RWImagePaths}

InitRW ==
    /\ started = FALSE
    /\ options = OptNone
    /\ fileRoots = <<>>
    /\ fs = RWFs
    /\ last = Last0
    /\ up = [u \in Uploads |-> UpIdle]
    /\ nreq = 0
    /\ gRoot = <<>>
    /\ gRel = <<>>
    /\ gRes = [ok |-> FALSE, full |-> <<>>, error |-> "none"]
    /\ rd = RdIdle
    /\ dl = DlIdle
    /\ zip = ZipIdle
    /\ unsubscribes = <<>>
    /\ client = ClientIdle
    /\ sk = SkEmpty
    /\ nav = NavIdle(FALSE)

NextRW ==
    \/ Start(ConcOptions)
    \/ Write(RWWriteReqs)
    \/ Read(RWReadReqs)

SpecRW == InitRW /\ [][NextRW]_vars

-----------------------------------------------------------------------------
(* Renames: files and a directory that holds a file                        *)

N_NMA == <<"n", "/", "m", "/", "a">>
N_NE == <<"n", "/", "e">>
N_DX == <<"d", "/", "x">>
N_DOTA == <<".", "/", "a">>
N_E == <<"e">>

\* /r holds the files a and a.txt and the directory d with the file d/a
RnFs ==
    (<<>> :> DirNode) @@ (<<Seg("r")>> :> DirNode) @@ (<<Seg("s")>> :> DirNode)
    @@ (<<Seg("r"), Seg("d")>> :> DirNode)
    @@ (<<Seg("r"), Seg("d"), Seg("a")>> :> FileNode(<<120>>, 0))
    @@ (<<Seg("r"), N_TXT>> :> FileNode(<<121>>, 0))
    @@ (<<Seg("r"), Seg("a")>> :> FileNode(<<122>>, PREVIEW_MAX))

RnPairs ==
    {<<N_TXT, N_TXT>>, <<P_D, P_D>>, <<P_A, N_DOTA>>, <<N_TXT, P_A>>,
     <<P_A, N_NMA>>, <<P_D, N_NE>>, <<P_D, N_DX>>, <<P_A, P_D>>, <<P_D, P_A>>,
     <<P_DA, P_D>>, <<P_DA, N_TXT>>, <<P_A, P_ESC>>, <<N_NE, P_D>>,
     <<P_DOT, P_DOT>>, <<P_D, N_E>>, <<P_A, N_E>>, <<N_NE, N_NMA>>}
RnMkdirReqs == {MkReq("mkdir", "", N_E), MkReq("mkdir", "", N_NE)}
RnReqs == {[MkReq("rename", "", pr[1]) EXCEPT !.newPath = pr[2]] : pr \in RnPairs}
\* writes onto a directory, below a file, and into directories to be made
RnWriteReqs ==
    {WithContent(MkReq("write", "", p), <<"x">>, "utf8") : p \in {P_D, N_DOTA, N_NMA, P_DOT}}
    \cup {WithContent(MkReq("write", "", <<"a", "/", "x">>), <<"x">>, "utf8")}

InitRn ==
    /\ started = FALSE
    /\ options = OptNone
    /\ fileRoots = <<>>
    /\ fs = RnFs
    /\ last = Last0
    /\ up = [u \in Uploads |-> UpIdle]
    /\ nreq = 0
    /\ gRoot = <<>>
    /\ gRel = <<>>
    /\ gRes = [ok |-> FALSE, full |-> <<>>, error |-> "none"]
    /\ rd = RdIdle
    /\ dl = DlIdle
    /\ zip = ZipIdle
    /\ unsubscribes = <<>>
    /\ client = ClientIdle
    /\ sk = SkEmpty
    /\ nav = NavIdle(FALSE)

NextRn ==
    \/ Start(ConcOptions)
    \/ Mkdir(RnMkdirReqs)
    \/ Write(RnWriteReqs)
    \/ RenameReq(RnReqs)

SpecRn == InitRn /\ [][NextRn]_vars

-----------------------------------------------------------------------------
(* One upload request: fields and file parts in every order                *)

N_UPB == <<".", ".", "/", "B">>

\* d is a directory of /r and a file of /s; a is a file of /r
UpFields == {<<"dir", P_D>>, <<"dir", P_A>>, <<"root", "extra-1">>}
UpFilenames == {N_TXT, N_UPB}
UpPartData == {FileNode(<<120>>, 0)}

InitUp ==
    /\ started = FALSE
    /\ options = OptNone
    /\ fileRoots = <<>>
    /\ fs = FsSeeded
    /\ last = Last0
    /\ up = [u \in Uploads |-> UpIdle]
    /\ nreq = 0
    /\ gRoot = <<>>
    /\ gRel = <<>>
    /\ gRes = [ok |-> FALSE, full |-> <<>>, error |-> "none"]
    /\ rd = RdIdle
    /\ dl = DlIdle
    /\ zip = ZipIdle
    /\ unsubscribes = <<>>
    /\ client = ClientIdle
    /\ sk = SkEmpty
    /\ nav = NavIdle(FALSE)

NextUp ==
    \/ Start(ConcOptions)
    \/ UploadBegin(1)
    \/ UploadField(1, UpFields)
    \/ UploadFile(1, UpFilenames, UpPartData)
    \/ UploadDirDone(1)
    \/ UploadWritten(1)
    \/ UploadFinish(1)
    \/ UploadError(1)

SpecUp == InitUp /\ [][NextUp]_vars

-----------------------------------------------------------------------------
(* One upload request into the root directory: the declared filenames and  *)
(* the sizes of the parts                                                  *)

\* declared filenames: plain, with a directory part, "..", none, and the
\* name of a directory of /r
DeclaredNames == {N_TXT, N_UPB, DOTDOT, <<>>, P_D}
\* a part of one byte and a part one byte above the size limit
SizedPartData == {FileNode(<<120>>, 0), FileNode(<<120>>, FILE_SIZE_LIMIT)}

NextUpName ==
    \/ Start(ConcOptions)
    \/ UploadBegin(1)
    \/ UploadFile(1, DeclaredNames, SizedPartData)
    \/ UploadDirDone(1)
    \/ UploadWritten(1)
    \/ UploadFinish(1)
    \/ UploadError(1)

SpecUpName == InitUp /\ [][NextUpName]_vars

\* Uploads of small parts whose declared filenames carry directory
\* components, into the root or into d below it
NameFields == {<<"dir", P_D>>}
PathNames == {N_TXT, N_UPB, DOTDOT, <<>>, P_BACK}

NextUpDir ==
    \/ Start(ConcOptions)
    \/ UploadBegin(1)
    \/ UploadField(1, NameFields)
    \/ UploadFile(1, PathNames, UpPartData)
    \/ UploadDirDone(1)
    \/ UploadWritten(1)
    \/ UploadFinish(1)
    \/ UploadError(1)

SpecUpDir == InitUp /\ [][NextUpDir]_vars

-----------------------------------------------------------------------------
(* Downloads of a directory, with the consumer leaving at any moment       *)

ZipReqs == {MkReq("download", "", p) : p \in {P_D, P_DOT, P_A, P_ESC}}
ExitCodes == {0, 12}

NextZip ==
    \/ Start(ConcOptions)
    \/ DownloadBegin(ZipReqs)
    \/ FileStreamOpen
    \/ ZipData
    \/ ZipExit(ExitCodes)
    \/ ZipKilled
    \/ ZipErrorEvent
    \/ ZipStdoutEnd
    \/ ZipCloseEvent
    \/ ResClose

SpecZip == InitUp /\ [][NextZip]_vars

\* a process that was sent SIGTERM ends
SpecZipLive == SpecZip /\ WF_vars(ZipKilled)

-----------------------------------------------------------------------------
(* Requests that fail, one or two for every endpoint                       *)

\* the seeded filesystem with a.txt, one byte above the preview ceiling
ErrFs == FsSeeded @@ (<<Seg("r"), N_TXT>> :> FileNode(<<120>>, PREVIEW_MAX))

ErrListReqs == {MkReq("list", "", P_A), MkReq("list", "", P_ESC)}
ErrReadReqs == {MkReq("read", "", p) : p \in {N_TXT, N_NE, P_EMPTY, P_A}}
ErrWriteReqs == {WithContent(MkReq("write", "", P_D), <<"x">>, "utf8")}
ErrMkdirReqs == {MkReq("mkdir", "", P_A)}
ErrRenameReqs ==
    {[MkReq("rename", "", N_NE) EXCEPT !.newPath = P_A],
     [MkReq("rename", "", P_A) EXCEPT !.newPath = P_D]}
ErrDeleteReqs == {MkReq("delete", "", N_NE), MkReq("delete", "zz", P_A)}

InitErr ==
    /\ started = FALSE
    /\ options = OptNone
    /\ fileRoots = <<>>
    /\ fs = ErrFs
    /\ last = Last0
    /\ up = [u \in Uploads |-> UpIdle]
    /\ nreq = 0
    /\ gRoot = <<>>
    /\ gRel = <<>>
    /\ gRes = [ok |-> FALSE, full |-> <<>>, error |-> "none"]
    /\ rd = RdIdle
    /\ dl = DlIdle
    /\ zip = ZipIdle
    /\ unsubscribes = <<>>
    /\ client = ClientIdle
    /\ sk = SkEmpty
    /\ nav = NavIdle(FALSE)

NextErr ==
    \/ Start(ConcOptions)
    \/ List(ErrListReqs)
    \/ Read(ErrReadReqs)
    \/ Mkdir(ErrMkdirReqs)
    \/ Write(ErrWriteReqs)
    \/ RenameReq(ErrRenameReqs)
    \/ Delete(ErrDeleteReqs)
    \/ UploadBegin(1)
    \/ UploadFinish(1)
    \/ UploadError(1)
    \/ DownloadBegin(ZipReqs)
    \/ FileStreamOpen
    \/ ZipData
    \/ ZipExit(ExitCodes)
    \/ ZipKilled
    \/ ZipErrorEvent
    \/ ZipStdoutEnd
    \/ ZipCloseEvent
    \/ ResClose

SpecErr == InitErr /\ [][NextErr]_vars

-----------------------------------------------------------------------------
(* GoTo and Show on map, on a server with and without the Course API       *)

Latitudes ==
    {JsNull, JsNum(45), JsStr(<<"4", "5">>), JsStr(<<"x">>), JsStr(<<>>)}
Longitudes == {JsNull, JsNum(9)}
WpNames == {<<>>, <<"h">>}
WpIds == {<<>>, <<"w", "1">>, <<"a", "/", "b">>}
Waypoints ==
    {[hasPosition |-> TRUE, latitude |-> la, longitude |-> lo, name |-> n, id |-> i] :
        la \in Latitudes, lo \in Longitudes, n \in WpNames, i \in WpIds}
    \cup {[NoWaypoint EXCEPT !.id = <<"w", "1">>]}
GotoReqs ==
    {NavReq("goto", TRUE, wp) : wp \in Waypoints}
    \cup {NavReq("goto", FALSE, NoWaypoint)}
ShowReqs == {NavReq("show", TRUE, wp) : wp \in Waypoints}

InitNav ==
    /\ started = FALSE
    /\ options = OptNone
    /\ fileRoots = <<>>
    /\ fs = FsSeeded
    /\ last = Last0
    /\ up = [u \in Uploads |-> UpIdle]
    /\ nreq = 0
    /\ gRoot = <<>>
    /\ gRel = <<>>
    /\ gRes = [ok |-> FALSE, full |-> <<>>, error |-> "none"]
    /\ rd = RdIdle
    /\ dl = DlIdle
    /\ zip = ZipIdle
    /\ unsubscribes = <<>>
    /\ client = ClientIdle
    /\ sk = SkEmpty
    /\ nav \in {NavIdle(FALSE), NavIdle(TRUE)}

NextNav ==
    \/ Start(ConcOptions)
    \/ Goto(GotoReqs)
    \/ Show(ShowReqs)

SpecNav == InitNav /\ [][NextNav]_vars

-----------------------------------------------------------------------------
(* Downloads of files that other requests remove or rename meanwhile       *)

DlFileReqs ==
    {MkReq("download", "", p) : p \in {P_A, <<"B">>, N_NE}}
    \cup {MkReq("download", "extra-1", P_D)}
DlDeleteReqs ==
    {MkReq("delete", "", p) : p \in {P_A, <<"B">>, P_D}}
    \cup {MkReq("delete", "extra-1", P_D)}
DlRenameReqs ==
    {[MkReq("rename", "", P_A) EXCEPT !.newPath = N_E],
     [MkReq("rename", "", P_D) EXCEPT !.newPath = <<"B">>]}

NextDl ==
    \/ Start(ConcOptions)
    \/ DownloadBegin(DlFileReqs)
    \/ FileStreamOpen
    \/ Delete(DlDeleteReqs)
    \/ RenameReq(DlRenameReqs)

SpecDl == InitUp /\ [][NextDl]_vars

-----------------------------------------------------------------------------
(* The plugin started and stopped again and again                          *)

LifeOptions ==
    {OptNone, OptTwo,
     [remoteFileRoot |-> ROOT_R, additionalFileRoots |-> <<>>, interval |-> 0],
     [remoteFileRoot |-> ROOT_R, additionalFileRoots |-> <<>>, interval |-> 5],
     [remoteFileRoot |-> ROOT_S, additionalFileRoots |-> <<>>, interval |-> 5],
     [remoteFileRoot |-> <<>>, additionalFileRoots |-> <<>>, interval |-> 1]}

NextLife ==
    \/ Start(LifeOptions)
    \/ Stop
    \/ PositionValue

SpecLife == InitUp /\ [][NextLife]_vars

-----------------------------------------------------------------------------
(* The client's list is paged, filtered, reloaded and resized              *)

NextPage ==
    \/ PagePrev
    \/ PageNext
    \/ FilterChange
    \/ setTab
    \/ Refresh
    \/ Resize

SpecPage == InitUp /\ [][NextPage]_vars

-----------------------------------------------------------------------------
(* The client's live connection; events that are queued are delivered and  *)
(* timeouts expire                                                         *)

NextWs ==
    \/ Boot
    \/ SocketOpen
    \/ SocketClosing
    \/ SocketClosed
    \/ SocketEvent
    \/ RetryTimer
    \/ MonitorTick

SpecWs == InitUp /\ [][NextWs]_vars /\ WF_vars(SocketEvent) /\ WF_vars(RetryTimer)

-----------------------------------------------------------------------------
(* The client deletes the selected waypoints of a server that holds        *)
(* MaxItems of them, and the user may cancel                               *)

InitBulk ==
    /\ started = FALSE
    /\ options = OptNone
    /\ fileRoots = <<>>
    /\ fs = FsSeeded
    /\ last = Last0
    /\ up = [u \in Uploads |-> UpIdle]
    /\ nreq = 0
    /\ gRoot = <<>>
    /\ gRel = <<>>
    /\ gRes = [ok |-> FALSE, full |-> <<>>, error |-> "none"]
    /\ rd = RdIdle
    /\ dl = DlIdle
    /\ zip = ZipIdle
    /\ unsubscribes = <<>>
    /\ nav = NavIdle(FALSE)
    /\ sk = [waypoints |-> 1..MaxItems, routes |-> {}]
    /\ client = render(fetched(ClientIdle, sk))

NextBulk ==
    \/ ToggleSelect
    \/ BulkDelete
    \/ BulkLoop
    \/ BulkAnswered
    \/ BulkEnd
    \/ CancelClick

SpecBulk == InitBulk /\ [][NextBulk]_vars

-----------------------------------------------------------------------------
(* The client loads the configuration of a plugin that is restarted        *)

NextCfg ==
    \/ Start(LifeOptions)
    \/ Stop
    \/ LoadConfig
    \/ LoadConfigPublic
    \/ SelectRoot

SpecCfg == InitUp /\ [][NextCfg]_vars

-----------------------------------------------------------------------------
(* The guard on its own: safeJoin applied to every short relative path     *)

G_A == <<"/", "a">>
G_ASLASH == <<"/", "a", "/">>
G_AA == <<"/", "a", "/", "a">>
G_TOP == <<"/">>
GuardRoots == {G_A, G_ASLASH, G_AA, G_TOP}

GuardPending == [ok |-> FALSE, full |-> <<>>, error |-> "none"]

InitGuard ==
    /\ started = FALSE
    /\ options = OptNone
    /\ fileRoots = <<>>
    /\ fs = FsBare
    /\ last = Last0
    /\ up = [u \in Uploads |-> UpIdle]
    /\ nreq = 0
    /\ gRoot \in GuardRoots
    /\ gRel \in StrsUpTo(GuardChars, MaxLen)
    /\ gRes = GuardPending
    /\ rd = RdIdle
    /\ dl = DlIdle
    /\ zip = ZipIdle
    /\ unsubscribes = <<>>
    /\ client = ClientIdle
    /\ sk = SkEmpty
    /\ nav = NavIdle(FALSE)

GuardResolve ==
    /\ gRes = GuardPending
    /\ gRes' = safeJoin(gRoot, gRel)
    /\ UNCHANGED <<started, options, fileRoots, fs, last, up, nreq, gRoot, gRel, stepVars>>

NextGuard == GuardResolve

SpecGuard == InitGuard /\ [][NextGuard]_vars

-----------------------------------------------------------------------------
(* Properties of the guard *)

Resolved == gRes # GuardPending
Chars(s) == {s[i] : i \in 1..Len(s)}
RelSegs(rel) == Split(ReplaceBackslashes(rel))
HasDotDot(rel) == \E i \in 1..Len(RelSegs(rel)) : RelSegs(rel)[i] = DOTDOT

\* containment, segment by segment: the root's segments begin the path's
Within(full, root) == IsAbsolute(full) /\ IsPrefix(SegsOf(root), SegsOf(full))

\* C1: safeJoin either fails with the traversal error or returns an absolute
\* path that is the resolved root or lies below it, for every root and every
\* relative path ("..", leading "/" and backslashes included).
C1_Contained ==
    Resolved =>
        IF gRes.ok THEN Within(gRes.full, gRoot) ELSE gRes.error = TRAVERSAL

C1_Witness ==
    /\ Resolved /\ gRes.error = TRAVERSAL
    /\ BSL \in Chars(gRel) /\ HasDotDot(gRel)

\* the relative paths C2 is about
Tricky(rel) == HasDotDot(rel) \/ BSL \in Chars(rel) \/ IsAbsolute(rel)

\* C2 as stated: every such path is refused with the traversal error.
C2_AlwaysRefused ==
    (Resolved /\ Tricky(gRel)) => gRes.error = TRAVERSAL

\* whether walking the segments from the root ever steps above the root
RECURSIVE ClimbsFrom(_, _)
ClimbsFrom(segs, depth) ==
    IF segs = <<>> THEN FALSE
    ELSE LET g == Head(segs) IN
         IF g = <<>> \/ g = DOT THEN ClimbsFrom(Tail(segs), depth)
         ELSE IF g = DOTDOT
              THEN depth = 0 \/ ClimbsFrom(Tail(segs), depth - 1)
              ELSE ClimbsFrom(Tail(segs), depth + 1)

Climbs(rel) == ClimbsFrom(RelSegs(rel), 0)

\* C2 amended: a path with "..", backslashes or a leading separator is never
\* resolved outside the root, and (for a root other than "/") it is refused
\* only if its ".." segments climb above the root: "a/../b", "/etc/passwd"
\* and "a\b" are accepted and resolve inside the root.
C2_RefusedOnlyWhenClimbing ==
    (Resolved /\ Tricky(gRel)) =>
        /\ gRes.ok => Within(gRes.full, gRoot)
        /\ (SegsOf(gRoot) # <<>> /\ ~Climbs(gRel)) => gRes.ok

C2_Witness ==
    /\ Resolved /\ gRes.ok /\ gRoot = G_A
    /\ gRel = <<"a", "/", ".", ".", "/">>

\* C3: safeJoin(root, "") is the resolved root (the root's segments, with no
\* trailing separator), and the only failure of safeJoin is the traversal error.
C3_EmptyIsRoot ==
    Resolved =>
        /\ gRel = <<>> =>
              /\ gRes.ok
              /\ SegsOf(gRes.full) = SegsOf(gRoot)
              /\ gRes.full = <<SEP>> \/ gRes.full[Len(gRes.full)] # SEP
        /\ ~gRes.ok => gRes.error = TRAVERSAL

C3_Witness == Resolved /\ gRel = <<>> /\ gRoot = G_ASLASH /\ gRes.full = G_A

-----------------------------------------------------------------------------
(* Properties of the file requests *)

FileOps == {"list", "read", "download", "mkdir", "write", "rename", "delete"}

\* the filesystem calls that create, write, move or remove, and the archiver's cwd
Touching ==
    {"mkdir", "writeFile", "rename", "rmdir", "unlink", "createWriteStream",
     "write", "spawn"}

GuardRejects(req) ==
    LET root == resolveRoot(fileRoots, req.root) IN
    \/ ~safeJoin(root.path, req.path).ok
    \/ req.op = "rename" /\ ~safeJoin(root.path, req.newPath).ok

\* a file part the guard refused: bb.on('file') caught the traversal error
Refused(part) == part.stage = "drained" /\ part.dirFull = <<>>

\* the step handles one of the seven non-upload file requests
RequestStep == nreq' = nreq + 1 /\ up' = up

\* the step is bb.on('file') of upload u
FileStep(u) == Len(up'[u].parts) > Len(up[u].parts)

\* the step sends the response of upload u
AnswerStep(u) == up[u].phase = "open" /\ up'[u].phase = "done"

\* C4 as stated: in every file endpoint, upload included, a path the guard
\* rejects leaves the filesystem as it was, with no filesystem call made, and
\* the request answers with an error.
C4_RejectedAnswersError ==
    [][ /\ (RequestStep /\ GuardRejects(last'.req)) =>
              /\ fs' = fs /\ last'.calls = <<>> /\ ~last'.res.ok
        /\ \A u \in Uploads :
              /\ (FileStep(u) /\ Refused(up'[u].parts[Len(up'[u].parts)])) => fs' = fs
              /\ (AnswerStep(u) /\ \E i \in 1..Len(up[u].parts) : Refused(up[u].parts[i]))
                    => ~up'[u].res.ok
      ]_vars

\* C4 amended: in list, read, download, mkdir, write, rename and delete the
\* root is resolved and every client path passes the guard before the first
\* filesystem call, and a rejected path gives a 400 answer with the
\* filesystem untouched.  In upload the guard runs in bb.on('file') before
\* ensureDir: a rejected part is drained, no filesystem call is ever made
\* for it and it is not reported as saved, but the request is not answered
\* with the traversal error.
C4_RejectedTouchesNothing ==
    [][ /\ (RequestStep /\ GuardRejects(last'.req)) =>
              /\ fs' = fs /\ last'.calls = <<>>
              /\ ~last'.res.ok /\ last'.res.status = 400
        /\ \A u \in Uploads :
              /\ FileStep(u) =>
                    LET part == up'[u].parts[Len(up'[u].parts)]
                        j == safeJoin(resolveRoot(fileRoots, up[u].rootId).path,
                                      up[u].dirRel)
                    IN  /\ fs' = fs
                        /\ ~j.ok => Refused(part)
                        /\ j.ok => part.stage = "mkdir" /\ part.dirFull = j.full
              /\ \A i \in 1..Len(up[u].parts) :
                    Refused(up[u].parts[i]) => up'[u].parts[i] = up[u].parts[i]
              /\ (up'[u] # up[u] /\ (up'[u].saved # up[u].saved \/ fs' # fs)) =>
                    \E k \in 1..Len(up[u].parts) :
                       /\ ~Refused(up[u].parts[k])
                       /\ up'[u].parts[k] # up[u].parts[k]
              /\ AnswerStep(u) => up'[u].res.error # TRAVERSAL
      ]_vars

C4_Witness ==
    /\ last.req.op = "rename" /\ last.req.newPath = P_ESC
    /\ last.res.error = TRAVERSAL
    /\ \E u \in Uploads :
          /\ up[u].phase = "done" /\ up[u].res.ok
          /\ \E i \in 1..Len(up[u].parts) : Refused(up[u].parts[i])

\* C5 as stated: every path a handler creates, writes, renames, removes or
\* uses as a working directory lies in the subtree of the root it selected.
C5_CallsWithinRoot ==
    \A i \in 1..Len(last.calls) :
        last.calls[i].fn \in Touching => Within(last.calls[i].path, last.rootPath)

\* the root a request is expected to use, by the code: the first root when
\* the id is omitted or matches nothing
Expected(req) ==
    IF req.root # "" /\ HasRoot(fileRoots, req.root)
    THEN FindRoot(fileRoots, req.root) ELSE fileRoots[1]

KnownRoot(req) == req.root = "" \/ HasRoot(fileRoots, req.root)

\* C6 as stated: a request naming a root id that matches no configured root
\* fails and operates on no root.
C6_UnknownRootFails ==
    (last.req.op \in FileOps /\ ~KnownRoot(last.req)) =>
        ~last.res.ok /\ last.calls = <<>>

\* C6 amended: root resolution returns the first configured root when the
\* root id is omitted and also when it matches no configured root, and the
\* matching root otherwise; list reports the id of the root it used, and no
\* filesystem call of the request lies in another configured root.
C6_UnknownRootIsFirst ==
    last.req.op \in FileOps =>
        /\ last.rootPath = Expected(last.req).path
        /\ ~KnownRoot(last.req) => last.rootPath = fileRoots[1].path
        /\ (last.req.op = "list" /\ last.res.ok) => last.res.root = Expected(last.req).id
        /\ \A i \in 1..Len(last.calls), k \in 1..Len(fileRoots) :
              fileRoots[k].path # Expected(last.req).path =>
                  ~Within(last.calls[i].path, fileRoots[k].path)

C6_Witness ==
    /\ Len(fileRoots) = 2
    /\ last.req.op = "list" /\ last.req.root = "zz"
    /\ last.res.ok /\ last.res.root = "default"
    /\ IsDir(fs, <<Seg("r"), Seg("a")>>) /\ ~Exists(fs, <<Seg("s"), Seg("a")>>)

NoRootsConfigured ==
    options.remoteFileRoot = <<>> /\ FilterRoots(options.additionalFileRoots) = <<>>

\* C7 as stated: started with no file roots configured, no file endpoint
\* reads or writes any filesystem location.
C7_NoRootsNoCalls ==
    (started /\ NoRootsConfigured /\ last.req.op \in FileOps) =>
        ~last.res.ok /\ last.calls = <<>>

\* C7 amended: the registry is never empty; started with no remoteFileRoot
\* and no additionalFileRoots it holds the single root "default" at
\* /var/lib/signalk/mydata-files, and the file endpoints act on that
\* directory.
C7_DefaultRootUsed ==
    started =>
        /\ Len(fileRoots) >= 1
        /\ fileRoots[1].id = "default"
        /\ NoRootsConfigured =>
              /\ Len(fileRoots) = 1
              /\ fileRoots[1].path = DEFAULT_ROOT
              /\ (last.req.op \in FileOps /\ last.calls # <<>>) =>
                    \E i \in 1..Len(last.calls) : Within(last.calls[i].path, DEFAULT_ROOT)

C7_Witness ==
    /\ started /\ NoRootsConfigured
    /\ last.req.op = "write" /\ last.res.ok
    /\ IsFile(fs, Append(SegsOf(DEFAULT_ROOT), <<"a">>))

\* C8: no file request handler changes the root registry, a handler other
\* than upload changes no upload request's variables, and a callback of one
\* upload request changes the variables (dirRel, rootId, saved, parts) of
\* that request only.
C8_NoSharedState ==
    [][ /\ started => fileRoots' = fileRoots /\ options' = options
        /\ (nreq' = nreq + 1 /\ last' # last) => up' = up
        /\ \A u, v \in Uploads :
              (u # v /\ up'[u] # up[u]) => up'[v] = up[v]
      ]_vars

C8_Witness ==
    /\ up[1].phase = "open" /\ up[2].phase = "open"
    /\ up[1].dirRel = P_ESC /\ up[2].dirRel = <<>>
    /\ up[1].rootId = "" /\ up[2].rootId = "extra-1"
    /\ Len(up[1].parts) = 1 /\ Len(up[2].parts) = 1

ListedDir == SegsOf(safeJoin(last.rootPath, last.req.path).full)
ListOk == last.req.op = "list" /\ last.res.ok

\* C9 as stated: directories before files, and within each group the names
\* in code-unit (case-sensitive) order, 'B.txt' before 'a.txt'.
C9_CodeUnitOrder ==
    ListOk =>
        \A i, j \in 1..Len(last.res.entries) :
            LET a == last.res.entries[i]
                b == last.res.entries[j]
            IN  i < j =>
                  /\ a.type = "dir" \/ b.type = "file"
                  /\ a.type = b.type => localeCompareCodeUnits(a.name, b.name) < 0

Letters(n) == [i \in 1..Len(n) |-> Primary(n[i])]

\* C9 amended: the entries returned by list are the children of the
\* directory, each once, all directories before all files, and within each
\* group in the order of localeCompare, which compares the letters
\* regardless of case before it looks at case: 'a.txt' comes before
\* 'B.txt', and a name never precedes one whose letters sort before its own.
C9_LocaleOrder ==
    ListOk =>
        /\ {last.res.entries[i].name : i \in 1..Len(last.res.entries)}
              = Names(fs, ListedDir)
        /\ Len(last.res.entries) = Cardinality(Names(fs, ListedDir))
        /\ \A i, j \in 1..Len(last.res.entries) :
              LET a == last.res.entries[i]
                  b == last.res.entries[j]
              IN  i < j =>
                    /\ a.type = "dir" \/ b.type = "file"
                    /\ a.type = b.type => LexCmp(Letters(a.name), Letters(b.name)) <= 0
                    /\ (a.type = b.type /\ a.name = <<"B">>) => b.name # <<"a">>

C9_Witness ==
    /\ ListOk /\ Len(last.res.entries) = 4
    /\ last.res.entries[1].type = "dir" /\ last.res.entries[1].name = <<"b">>
    /\ last.res.entries[2].type = "file" /\ last.res.entries[2].name = <<"a">>
    /\ last.res.entries[3].type = "file" /\ last.res.entries[3].name = <<"A", "b">>
    /\ last.res.entries[4].type = "file" /\ last.res.entries[4].name = <<"B">>

\* the step handles a list request whose path the guard accepts
ListStep == nreq' = nreq + 1 /\ up' = up /\ last'.req.op = "list"

CreatedDir(p) ==
    /\ last'.res.ok /\ last'.res.entries = <<>>
    /\ \A q \in Prefixes(p) : IsDir(fs', q)
    /\ \A q \in DOMAIN fs : q \in DOMAIN fs' /\ fs'[q] = fs[q]
    /\ DOMAIN fs' = DOMAIN fs \cup Prefixes(p)

\* C10 as stated: list on a contained path where nothing exists succeeds with
\* no entries and leaves a directory, with its missing ancestors, at that
\* path; list on an existing file fails and leaves the file unchanged.
C10_ListCreates ==
    [][ ListStep =>
          LET j == safeJoin(last'.rootPath, last'.req.path)
              target == SegsOf(j.full)
          IN  j.ok =>
                /\ ~Exists(fs, target) => CreatedDir(target)
                /\ IsFile(fs, target) => ~last'.res.ok /\ fs' = fs
      ]_vars

\* C10 amended: list on a contained path where nothing exists and of which
\* no ancestor is a file succeeds with no entries and leaves a directory,
\* with its missing ancestors, at that path; list on a path that names an
\* existing file, or that lies below a file, fails with status 400 and
\* leaves the filesystem unchanged.
C10_ListCreatesUnlessBelowFile ==
    [][ ListStep =>
          LET j == safeJoin(last'.rootPath, last'.req.path)
              target == SegsOf(j.full)
              belowFile == \E q \in Prefixes(target) : IsFile(fs, q)
          IN  j.ok =>
                /\ (~Exists(fs, target) /\ ~belowFile) => CreatedDir(target)
                /\ belowFile => ~last'.res.ok /\ last'.res.status = 400 /\ fs' = fs
      ]_vars

C10_Witness ==
    /\ last.req.op = "list" /\ last.req.path = P_DA /\ last.req.root = "extra-1"
    /\ last.res.ok /\ last.res.entries = <<>>
    /\ IsDir(fs, <<Seg("s"), Seg("d"), Seg("a")>>)
    /\ nreq = 1

\* the step handles a mkdir request that names a path
MkdirStep ==
    nreq' = nreq + 1 /\ up' = up /\ last'.req.op = "mkdir" /\ last'.req.path # <<>>

\* C11: a mkdir request naming a path that is already a directory succeeds
\* and leaves the filesystem unchanged; after any successful mkdir the
\* path and every ancestor of it are directories, and the same request
\* issued again gives the same answer and the same filesystem.
C11_MkdirIdempotent ==
    [][ MkdirStep =>
          LET j == safeJoin(last'.rootPath, last'.req.path)
              target == SegsOf(j.full)
              again == MkdirHandler(fs', fileRoots, last'.req)
          IN  j.ok =>
                /\ IsDir(fs, target) => last'.res.ok /\ fs' = fs
                /\ last'.res.ok =>
                      /\ \A q \in Prefixes(target) : IsDir(fs', q)
                      /\ again.fs = fs' /\ again.res = last'.res
      ]_vars

C11_Witness ==
    /\ nreq = 2 /\ last.req.op = "mkdir" /\ last.req.path = P_D /\ last.req.root = ""
    /\ last.res.ok /\ Len(fileRoots) = 2
    /\ fs = FsSeeded

\* the file a read request names, when the guard accepts its path
ReadTarget == SegsOf(safeJoin(last.rootPath, last.req.path).full)
ReadOfFile ==
    /\ last.req.op = "read" /\ last.req.path # <<>>
    /\ safeJoin(last.rootPath, last.req.path).ok
    /\ IsFile(fs, ReadTarget)

\* C12: read of a file larger than 5 MB answers 413 with the too-large
\* error and no payload, whatever its extension; a file of exactly 5 MB
\* or less is answered with ok, and a payload it carries is the whole
\* content of the file, never a part of it.
C12_TooLarge ==
    ReadOfFile =>
        LET node == fs[ReadTarget]
            bytes == Len(node.data) + node.pad
        IN
        /\ bytes > 5 * 1024 * 1024 =>
              /\ last.res.status = 413 /\ ~last.res.ok /\ last.res.error = TOO_LARGE
              /\ last.res.field = "none" /\ last.res.payload = <<>> /\ last.res.pad = 0
        /\ bytes <= 5 * 1024 * 1024 =>
              /\ last.res.ok /\ last.res.status = 200 /\ last.res.size = bytes
              /\ last.res.field = "text" =>
                    last.res.payload = Utf8Decode(node.data) /\ last.res.pad = node.pad
              /\ last.res.field = "data" =>
                    last.res.payload = Base64Encode(node.data) /\ last.res.pad = node.pad

C12_Witness ==
    /\ ReadOfFile /\ last.req.path = N_PNG
    /\ Len(fs[ReadTarget].data) + fs[ReadTarget].pad = 5 * 1024 * 1024 + 1
    /\ last.res.status = 413

\* the number of bytes a preview's payload stands for
PayloadBytes(res) ==
    res.pad + (IF res.field = "data" THEN Len(Base64Decode(res.payload))
               ELSE Len(Utf8Encode(res.payload)))

ReadPreview == last.req.op = "read" /\ last.res.ok /\ last.res.field # "none"

\* C13 as stated: in every interleaving of a read with concurrent writes
\* and uploads to the same path, a successful read carries a payload of at
\* most 5 MB and reports as size the length of the content it returns.
C13_ReadConsistent ==
    ReadPreview =>
        /\ PayloadBytes(last.res) <= 5 * 1024 * 1024
        /\ last.res.size = PayloadBytes(last.res)

\* a read answered with more than the ceiling allows
C13_OverCeiling == ReadPreview /\ PayloadBytes(last.res) > 5 * 1024 * 1024

\* the extension read classifies by, and the class the tables give it
ReadExt == ToLower(Extname(safeJoin(last.rootPath, last.req.path).full))
TextClass == ReadExt \in TEXT_EXTS
MediaClass ==
    /\ ~TextClass
    /\ \/ SubSeq(MimeOf(ReadExt), 1, 6) \in {<<"i", "m", "a", "g", "e", "/">>,
                                             <<"a", "u", "d", "i", "o", "/">>,
                                             <<"v", "i", "d", "e", "o", "/">>}
       \/ MimeOf(ReadExt) = <<"a", "p", "p", "l", "i", "c", "a", "t", "i", "o", "n", "/", "p", "d", "f">>
UnderCeiling == Len(fs[ReadTarget].data) + fs[ReadTarget].pad <= 5 * 1024 * 1024

\* C14: a file under the ceiling is classified by its lowercased extension
\* alone.  A text extension gives kind text with the whole content decoded
\* as UTF-8; otherwise a MIME type image/*, audio/*, video/* or
\* application/pdf gives kind binary with the base64 of the whole content;
\* any other file gives metadata without a payload, an extension outside
\* the table being application/octet-stream.  The three cases exclude each
\* other and the answer has the payload field of exactly one of them.
C14_Classified ==
    (ReadOfFile /\ UnderCeiling) =>
        LET node == fs[ReadTarget] IN
        /\ last.res.ok /\ last.res.mime = MimeOf(ReadExt)
        /\ TextClass =>
              /\ last.res.kind = "text" /\ last.res.field = "text"
              /\ last.res.payload = Utf8Decode(node.data) /\ last.res.pad = node.pad
        /\ MediaClass =>
              /\ last.res.kind = "binary" /\ last.res.field = "data"
              /\ last.res.payload = Base64Encode(node.data) /\ last.res.pad = node.pad
        /\ (~TextClass /\ ~MediaClass) =>
              /\ last.res.kind = "binary" /\ last.res.field = "none"
              /\ last.res.payload = <<>> /\ last.res.pad = 0
        /\ ReadExt \in {<<>>, <<".", "b", "i", "n">>} =>
              last.res.mime = OCTET /\ last.res.field = "none"
        /\ ~(TextClass /\ MediaClass)

\* a.pdf is answered as a base64 preview, a.PNG as image/png
C14_Witness ==
    /\ ReadOfFile /\ UnderCeiling
    /\ last.req.path = N_PDF
    /\ last.res.field = "data" /\ last.res.payload = Base64Encode(<<120, 121>>)

\* the step reads the path that the request before it wrote with success
ReadAfterWrite ==
    /\ nreq' = nreq + 1
    /\ last.req.op = "write" /\ last.res.ok
    /\ last'.req.op = "read"
    /\ last'.req.root = last.req.root /\ last'.req.path = last.req.path

\* C15 as stated: a read that follows a write of a content as utf8 to the
\* same contained path returns a text preview whose payload is that content.
C15_TextRoundTrip ==
    [][ (ReadAfterWrite /\ last.req.encoding = "utf8") =>
            /\ last'.res.ok /\ last'.res.kind = "text"
            /\ last'.res.field = "text" /\ last'.res.payload = last.req.content
      ]_vars

\* the written path has an image extension
ImagePath(full) ==
    SubSeq(MimeOf(ToLower(Extname(full))), 1, 6) = <<"i", "m", "a", "g", "e", "/">>

\* C16: a read that follows a successful write of base64(bytes) with
\* encoding base64 to a path with an image extension answers a binary
\* preview with a data payload, and that payload decodes to exactly bytes.
C16_Base64RoundTrip ==
    [][ (/\ ReadAfterWrite /\ last.req.encoding = "base64"
         /\ ImagePath(safeJoin(last.rootPath, last.req.path).full)) =>
            \A b \in RWBytes :
                last.req.content = Base64Encode(b) =>
                    /\ last'.res.ok /\ last'.res.kind = "binary"
                    /\ last'.res.field = "data" /\ last'.res.pad = 0
                    /\ Base64Decode(last'.res.payload) = b
                    /\ last'.res.size = Len(b)
      ]_vars

\* d/a.jpg, absent at first, is read back as the four bytes written to it
C16_Witness ==
    /\ last.req.op = "read" /\ last.req.path = N_JPG
    /\ last.res.ok /\ last.res.field = "data"
    /\ Base64Decode(last.res.payload) = <<1, 2, 3, 4>>
    /\ fs[<<Seg("r"), Seg("d"), <<"a", ".", "j", "p", "g">>>>].data = <<1, 2, 3, 4>>

\* the step handles a write request and answers ok
WriteOk == nreq' = nreq + 1 /\ last'.req.op = "write" /\ last'.res.ok

\* C17: after a successful write the file at the path holds exactly the
\* decoded content (the bytes of the base64 text, or the UTF-8 encoding of
\* the content), whatever was there before; every ancestor of the path is
\* a directory; a second write to the same path leaves the later content;
\* and every entry other than the path and the ancestors that did not
\* exist before is as it was.
C17_WriteCreatesOrOverwrites ==
    [][ WriteOk =>
          LET target == SegsOf(safeJoin(last'.rootPath, last'.req.path).full)
              bytes == IF last'.req.encoding = "base64"
                       THEN Base64Decode(last'.req.content)
                       ELSE Utf8Encode(last'.req.content)
              created == {q \in Prefixes(target) : ~Exists(fs, q)}
          IN  /\ IsFile(fs', target)
              /\ fs'[target].data = bytes /\ fs'[target].pad = 0
              /\ \A q \in Prefixes(target) \ {target} : IsDir(fs', q)
              /\ \A q \in (DOMAIN fs \cup DOMAIN fs') \ ({target} \cup created) :
                    q \in DOMAIN fs /\ q \in DOMAIN fs' /\ fs'[q] = fs[q]
              /\ (last.req.op = "write" /\ last.res.ok
                  /\ last.req.path = last'.req.path /\ last.req.root = last'.req.root) =>
                    fs'[target] = FileNode(bytes, 0)
      ]_vars

\* a.txt, which held more than 5 MB, holds the three bytes written to it,
\* after an earlier write has created the directories n and n/m
C17_Witness ==
    /\ last.req.op = "write" /\ last.req.path = N_TXT /\ last.res.ok
    /\ last.req.content = <<"x", "E9">>
    /\ fs[<<Seg("r"), N_TXT>>] = FileNode(<<120, 195, 169>>, 0)
    /\ IsDir(fs, <<Seg("r"), Seg("n"), Seg("m")>>)
    /\ IsFile(fs, <<Seg("r"), Seg("n"), Seg("m"), N_TXT>>)

\* the step handles a delete request whose path the guard accepts
DeleteStep ==
    /\ nreq' = nreq + 1 /\ last'.req.op = "delete" /\ last'.req.path # <<>>
    /\ safeJoin(last'.rootPath, last'.req.path).ok

\* C18: delete of a directory that holds an entry answers 400 with
\* 'Directory not empty' and changes nothing; delete of an empty directory
\* or of a file answers ok and removes that entry and no other.
C18_DeleteOnlyEmpty ==
    [][ DeleteStep =>
          LET target == SegsOf(safeJoin(last'.rootPath, last'.req.path).full)
              holds == {q \in DOMAIN fs : IsPrefix(target, q) /\ q # target}
          IN  /\ (IsDir(fs, target) /\ holds # {}) =>
                    /\ ~last'.res.ok /\ last'.res.status = 400
                    /\ last'.res.error = "Directory not empty"
                    /\ fs' = fs
              /\ (IsFile(fs, target) \/ (IsDir(fs, target) /\ holds = {})) =>
                    /\ last'.res.ok
                    /\ DOMAIN fs' = DOMAIN fs \ {target}
                    /\ \A q \in DOMAIN fs' : fs'[q] = fs[q]
      ]_vars

\* the directory d, into which a mkdir has put d/a, is refused and kept
C18_Witness ==
    /\ last.req.op = "delete" /\ last.req.path = P_D /\ last.req.root = ""
    /\ last.res.error = "Directory not empty"
    /\ IsDir(fs, <<Seg("r"), Seg("d"), Seg("a")>>)

\* the step is the last of a delete request that went past its stat
DeleteFinishes == dl.phase # "idle" /\ dl'.phase = "idle"

\* C19: whatever other requests do between the steps of a delete request,
\* the delete removes nothing when its target holds an entry at the moment
\* of the removal, and answers an error then; when it changes the
\* filesystem at all it removes its target and no other entry.
C19_DeleteNeverRecursive ==
    [][ DeleteFinishes =>
          LET target == SegsOf(dl.target)
              holds == {q \in DOMAIN fs : IsPrefix(target, q) /\ q # target}
          IN  /\ holds # {} => fs' = fs /\ ~last'.res.ok
              /\ fs' # fs =>
                    /\ target \in DOMAIN fs
                    /\ DOMAIN fs' = DOMAIN fs \ {target}
                    /\ \A q \in DOMAIN fs' : fs'[q] = fs[q]
      ]_vars

\* rmdir has refused the directory d, which got an entry after the delete
\* request had found it empty
C19_Witness ==
    /\ last.req.op = "delete" /\ last.req.path = P_D
    /\ last.res.error = "ENOTEMPTY"
    /\ Children(fs, <<Seg("r"), Seg("d")>>) # {}

\* the step handles a rename request and answers ok
RenameOk == nreq' = nreq + 1 /\ last'.req.op = "rename" /\ last'.res.ok
RnSrc == SegsOf(safeJoin(last'.rootPath, last'.req.path).full)
RnDst == SegsOf(safeJoin(last'.rootPath, last'.req.newPath).full)
RnCreated == {q \in Prefixes(RnDst) : q # RnDst /\ ~Exists(fs, q)}

\* C20 as stated: after a successful rename nothing exists at the source
\* path, the destination holds what the source held, and every entry other
\* than the source, the destination and the created ancestors is unchanged.
C20_RenameMoves ==
    [][ RenameOk =>
          /\ ~Exists(fs', RnSrc)
          /\ Exists(fs', RnDst) /\ fs'[RnDst] = fs[RnSrc]
          /\ \A q \in RnCreated : IsDir(fs', q)
          /\ \A q \in (DOMAIN fs \cup DOMAIN fs') \ ({RnSrc, RnDst} \cup RnCreated) :
                q \in DOMAIN fs /\ q \in DOMAIN fs' /\ fs'[q] = fs[q]
      ]_vars

\* C20: a successful rename whose two paths name the same entry changes
\* nothing.  Otherwise it creates the missing ancestors of the destination
\* as directories; nothing exists at the source path or below it; the
\* destination holds what the source held, and for a directory every entry
\* that was below the source is below the destination at the same relative
\* path and nothing else is; every entry that is neither at or below the
\* source, nor at or below the destination, nor a created ancestor is
\* unchanged.
C20_RenameMovesSubtree ==
    [][ RenameOk =>
          LET moved == {q \in DOMAIN fs : IsPrefix(RnSrc, q)}
              Target(q) == RnDst \o SubSeq(q, Len(RnSrc) + 1, Len(q))
          IN  /\ RnSrc \in DOMAIN fs
              /\ RnSrc = RnDst => fs' = fs
              /\ RnSrc # RnDst =>
                    /\ \A q \in DOMAIN fs' : ~IsPrefix(RnSrc, q)
                    /\ \A q \in moved : Exists(fs', Target(q)) /\ fs'[Target(q)] = fs[q]
                    /\ {q \in DOMAIN fs' : IsPrefix(RnDst, q)} = {Target(q) : q \in moved}
                    /\ \A q \in RnCreated : IsDir(fs', q)
                    /\ \A q \in (DOMAIN fs \cup DOMAIN fs') \ RnCreated :
                          (~IsPrefix(RnSrc, q) /\ ~IsPrefix(RnDst, q)) =>
                              q \in DOMAIN fs /\ q \in DOMAIN fs' /\ fs'[q] = fs[q]
      ]_vars

\* the directory d has moved to n/e with the file it held, n being created
C20_Witness ==
    /\ last.req.op = "rename" /\ last.req.path = P_D /\ last.req.newPath = N_NE
    /\ last.res.ok
    /\ ~Exists(fs, <<Seg("r"), Seg("d")>>)
    /\ IsDir(fs, <<Seg("r"), Seg("n")>>)
    /\ IsDir(fs, <<Seg("r"), Seg("n"), Seg("e")>>)
    /\ fs[<<Seg("r"), Seg("n"), Seg("e"), Seg("a")>>] = FileNode(<<120>>, 0)

\* the step handles a rename request that names both paths
RenameStep ==
    /\ nreq' = nreq + 1 /\ last'.req.op = "rename"
    /\ last'.req.path # <<>> /\ last'.req.newPath # <<>>

\* where the new path of the request leads, resolved from the request's root
RnDstFull ==
    PathResolve(last'.rootPath, StripLeadingSlashes(ReplaceBackslashes(last'.req.newPath)))

\* C21 as stated: the destination is validated against its own root, so a
\* rename whose source is inside the request's root and whose destination
\* is inside some configured root is not refused by the guard.
C21_CrossRootMove ==
    [][ (/\ RenameStep
         /\ safeJoin(last'.rootPath, last'.req.path).ok
         /\ \E i \in 1..Len(fileRoots) : Within(RnDstFull, fileRoots[i].path)) =>
            last'.res.error # TRAVERSAL
      ]_vars

\* C21: rename validates its source and its destination independently, but
\* both against the one root the request names.  When either leaves that
\* root the request is refused with the traversal error and nothing
\* changes, also when the destination lies inside another configured root;
\* a successful rename has both paths inside the request's root and changes
\* no entry outside it, so no entry moves from one root to another.
C21_SameRootOnly ==
    [][ RenameStep =>
          LET js == safeJoin(last'.rootPath, last'.req.path)
              jd == safeJoin(last'.rootPath, last'.req.newPath)
              rootSegs == SegsOf(last'.rootPath)
          IN  /\ (~js.ok \/ ~jd.ok) =>
                    /\ ~last'.res.ok /\ last'.res.status = 400
                    /\ last'.res.error = TRAVERSAL /\ last'.calls = <<>>
                    /\ fs' = fs
              /\ (~Within(RnDstFull, last'.rootPath)) => ~last'.res.ok
              /\ last'.res.ok =>
                    /\ Within(js.full, last'.rootPath) /\ Within(jd.full, last'.rootPath)
                    /\ \A q \in DOMAIN fs \cup DOMAIN fs' :
                          ~IsPrefix(rootSegs, q) =>
                              q \in DOMAIN fs /\ q \in DOMAIN fs' /\ fs'[q] = fs[q]
      ]_vars

\* with the roots /r and /s configured, the move of /r/a to ../s/a, a path
\* inside /s, is refused and a stays where it was
C21_Witness ==
    /\ Len(fileRoots) = 2 /\ fileRoots[2].path = ROOT_S
    /\ last.req.op = "rename" /\ last.req.path = P_A /\ last.req.newPath = P_ESC
    /\ last.res.error = TRAVERSAL
    /\ IsFile(fs, <<Seg("r"), Seg("a")>>) /\ ~Exists(fs, <<Seg("s"), Seg("a")>>)

\* the upload request under study and what it answered
Upl == up[1]
UploadAnswered == Upl.phase = "done" /\ Upl.res.ok
SavedPaths == {Upl.res.saved[k] : k \in 1..Len(Upl.res.saved)}

\* where a part's file is, relative to the root it was resolved against
PartRel(part) ==
    LET out == SegsOf(part.outPath)
        n == Len(SegsOf(part.rootPath))
    IN  JoinSegs(SubSeq(out, n + 1, Len(out)))

\* the part's destination was resolved and created, and its file opened
Placed(part) == part.stage \in {"writing", "saved"}

\* C22 as stated: when the destination of one part of an upload could not
\* be resolved or created, the answer is still a success and its saved list
\* holds the path of every other part, whose destination was created, and
\* no other path.
C22_FailedPartIsolated ==
    (UploadAnswered /\ \E i \in 1..Len(Upl.parts) : Upl.parts[i].stage = "drained") =>
        /\ Upl.res.status = 200
        /\ \A i \in 1..Len(Upl.parts) :
              Placed(Upl.parts[i]) => PartRel(Upl.parts[i]) \in SavedPaths
        /\ \A sv \in SavedPaths :
              \E i \in 1..Len(Upl.parts) :
                  Placed(Upl.parts[i]) /\ PartRel(Upl.parts[i]) = sv

\* the part's bytes are all on disk: written, and not cut at the size limit
Complete(part) == part.stage = "saved" /\ ~part.truncated

\* every callback of the request has run
Settled == \A i \in 1..Len(Upl.parts) : Upl.parts[i].stage \notin {"mkdir", "writing"}

\* C23 as stated: whatever the order of the callbacks, the saved list of
\* the answer holds the relative path of every part that is on disk, and
\* only paths of parts that were written completely and with success.
C23_SavedListsWrittenParts ==
    (UploadAnswered /\ Settled) =>
        /\ \A i \in 1..Len(Upl.parts) :
              Upl.parts[i].stage = "saved" => PartRel(Upl.parts[i]) \in SavedPaths
        /\ \A sv \in SavedPaths :
              \E i \in 1..Len(Upl.parts) :
                  Complete(Upl.parts[i]) /\ PartRel(Upl.parts[i]) = sv

\* C24: whatever filename a part declares, its file is opened as a direct
\* child of the target directory resolved for the part, and every file the
\* upload creates or changes is such a child
UploadTouched ==
    {p \in DOMAIN fs : IsFile(fs, p) /\ (p \notin DOMAIN FsSeeded \/ fs[p] # FsSeeded[p])}
DirectChild(out, dir) == Len(out) = Len(dir) + 1 /\ Parent(out) = dir
C24_FilenameStaysInTarget ==
    /\ \A i \in 1..Len(Upl.parts) :
          Upl.parts[i].outPath # <<>> =>
             DirectChild(SegsOf(Upl.parts[i].outPath), SegsOf(Upl.parts[i].dirFull))
    /\ \A p \in UploadTouched :
          \E i \in 1..Len(Upl.parts) : DirectChild(p, SegsOf(Upl.parts[i].dirFull))
C24_Witness ==
    /\ Len(Upl.parts) = 2
    /\ Upl.parts[1].declared = N_UPB /\ Upl.parts[1].stage = "saved"
    /\ SegsOf(Upl.parts[1].outPath) = <<Seg("r"), Seg("d"), Seg("B")>>
    /\ Upl.parts[2].declared = DOTDOT /\ Upl.parts[2].stage = "saved"
    /\ SegsOf(Upl.parts[2].outPath) = <<Seg("r"), Seg("d"), UPLOAD_BIN>>
    /\ IsFile(fs, <<Seg("r"), Seg("d"), Seg("B")>>)
    /\ IsFile(fs, <<Seg("r"), Seg("d"), UPLOAD_BIN>>)

\* C25: the destination of an upload is resolved once, so the parts of one
\* request that were written lie in one directory of one root, in whatever
\* order the fields and the file parts arrived
C25_OneDestination ==
    \A i, j \in 1..Len(Upl.parts) :
        (Upl.parts[i].stage = "saved" /\ Upl.parts[j].stage = "saved") =>
            /\ Upl.parts[i].rootPath = Upl.parts[j].rootPath
            /\ Parent(SegsOf(Upl.parts[i].outPath)) = Parent(SegsOf(Upl.parts[j].outPath))

\* C26: once the response of a directory download has closed, the archiver
\* of that request has been sent SIGTERM unless it had ended already, and
\* it does not go on running
C26_DisconnectEndsArchiver ==
    /\ [](zip.closed /\ zip.proc = "running" => zip.signalled)
    /\ ((zip.phase = "open" /\ zip.closed) ~> zip.proc # "running")
C26_Witness ==
    /\ zip.closed /\ ~zip.ended /\ zip.sent = 1
    /\ zip.signalled /\ zip.proc = "exited" /\ zip.code = -1

\* C27: an archive that failed while the consumer was there is answered
\* with an error status when nothing had been sent, and otherwise ends
\* with nothing more written to the body
ArchiveFailed ==
    /\ zip.proc = "nospawn" \/ (zip.proc = "exited" /\ zip.code # 0)
    /\ ~zip.signalled
C27_FailedArchiveAnswered ==
    (zip.closeEmitted /\ zip.ended /\ ArchiveFailed) =>
        IF zip.sent = 0 THEN zip.status = 500 ELSE zip.text = ""

\* C28: an error answer of a JSON endpoint carries ok: false and an error
\* text, with status 413 for the oversize preview and 400 for everything
\* else, a failed filesystem call included; the only answer with status 500
\* is that of an archiver that could not be started, and its body is text
FsErrorNames ==
    {"ENOENT", "ENOTDIR", "EISDIR", "EEXIST", "ENOTEMPTY", "EBUSY", "EINVAL"}
JsonError(res) ==
    (res.status \notin {0, 200}) =>
        /\ ~res.ok /\ res.error # ""
        /\ res.status \in {400, 413}
        /\ res.status = 413 <=> res.error = TOO_LARGE
        /\ res.error \in FsErrorNames => res.status = 400
GotoDone == nav.req.op = "goto" /\ nav.out.status # 0
LacksPosition ==
    \/ ~nav.req.hasWaypoint \/ ~nav.req.waypoint.hasPosition
    \/ nav.req.waypoint.latitude = JsNull \/ nav.req.waypoint.longitude = JsNull
DeltaPaths(d) == [k \in 1..Len(d.values) |-> d.values[k].path]
NextPointPaths(wp) ==
    <<"navigation.courseRhumbline.nextPoint.position",
      "navigation.courseRhumbline.nextPoint.name">>
    \o (IF wp.id # <<>> THEN <<"navigation.courseRhumbline.nextPoint.href">> ELSE <<>>)
PublishedNextPoint ==
    /\ Len(nav.out.deltas) = 1
    /\ nav.out.deltas[1].context = "vessels.self"
    /\ DeltaPaths(nav.out.deltas[1]) = NextPointPaths(nav.req.waypoint)
    /\ nav.out.deltas[1].values[2].value = NameOf(nav.req.waypoint)
    /\ nav.req.waypoint.id # <<>> =>
          nav.out.deltas[1].values[3].value =
             <<"/signalk/v2/api/resources/waypoints/">>
             \o encodeURIComponent(nav.req.waypoint.id)
C30_ShowPublishesFeature ==
    (nav.req.op = "show" /\ nav.out.status = 200) =>
        \E i \in 1..Len(nav.out.deltas) :
            \E k \in 1..Len(nav.out.deltas[i].values) :
                nav.out.deltas[i].values[k].path = "plugins.nav-manager.selectedFeature"

\* C31: a write or rename request that is answered with an error leaves
\* the filesystem as it was
FailedStep(op) == nreq' = nreq + 1 /\ last'.req.op = op /\ ~last'.res.ok
FailedWriteChangesNothing == [][FailedStep("write") => fs' = fs]_vars
C31_FailedRequestChangesNothing ==
    [][(FailedStep("write") \/ FailedStep("rename")) => fs' = fs]_vars

\* C34: while the plugin is stopped no subscription of an earlier start is
\* active, and no unsubscribe function has been invoked more than once
C34_UnsubscribedOnce ==
    /\ ~started => \A i \in 1..Len(unsubscribes) : ~unsubscribes[i].active
    /\ \A i \in 1..Len(unsubscribes) : unsubscribes[i].calls <= 1

\* C33: a configured root that is a directory is still a directory after
\* every step
RootDirs(f) ==
    {k \in 1..Len(fileRoots) : IsDir(f, SegsOf(fileRoots[k].path))}
C33_RootStays == [][started => RootDirs(fs) \subseteq RootDirs(fs')]_vars

\* C32: no download ends in an 'error' event that nobody listens to
C32_NoUnhandledError == ~zip.unhandled

\* C35: after a loadConfig that succeeded the client holds the roots the
\* server sent, the Files tab is shown exactly when there is a root, and
\* the active root is one of them
Ids(roots) == [k \in 1..Len(roots) |-> roots[k].id]
C35_ClientRootsMatchServer ==
    client.loaded = "ok" =>
        /\ Ids(client.fileRoots) = Ids(client.served)
        /\ client.filesTabHidden <=> (client.served = <<>>)
        /\ client.served # <<>> =>
              \E k \in 1..Len(client.served) : client.served[k].id = client.rootId

\* C36: after every render the page of the active tab lies between 1 and
\* the number of pages, which is 1 at least, and the table shows exactly
\* the items of that page of the filtered and sorted list
ShownList == applySort(client, applyFilters(client, getItemsForTab(client)))
C36_PageWithinBounds ==
    LET page == client.page[client.tab]
        size == client.pageSize[client.tab]
    IN  /\ client.totalPages >= 1
        /\ 1 <= page /\ page <= client.totalPages
        /\ size >= 1
        /\ client.totalPages * size >= Len(ShownList)
        /\ client.totalPages > 1 => (client.totalPages - 1) * size < Len(ShownList)
        /\ Len(client.rows) = Min(size, Len(ShownList) - (page - 1) * size)
        /\ \A i \in 1..Len(client.rows) : client.rows[i] = ShownList[(page - 1) * size + i]
C36_Witness ==
    /\ client.tab = "routes" /\ client.page["routes"] = 2 /\ client.totalPages = 2
    /\ client.filterText = "a" /\ client.sortOrder = "desc"
    /\ client.rows = <<2>> /\ client.page["waypoints"] = 1

\* C37: at no time are two of the sockets made by connectWS connecting or
\* open, and after a socket has closed another one is made
LiveSockets ==
    {k \in DOMAIN client.sockets : client.sockets[k].readyState \in {"CONNECTING", "OPEN"}}
C37_OneLiveSocket ==
    /\ [](Cardinality(LiveSockets) <= 1)
    /\ \A k \in 1..(MaxSockets - 1) :
          (Len(client.sockets) >= k /\ client.sockets[k].readyState = "CLOSED")
              ~> (Len(client.sockets) > k)
C37_Witness ==
    /\ Len(client.sockets) = 3
    /\ client.sockets[1].readyState = "CLOSED" /\ client.sockets[2].readyState = "CLOSED"
    /\ client.sockets[3].readyState = "OPEN" /\ client.liveSocket = 3
    /\ client.retryTimers = 1

\* C38: once the controller of a bulk delete is aborted no further DELETE is
\* sent; a cancelled bulk delete leaves on the server every selected item it
\* sent no DELETE for; and a bulk delete that has ended leaves the overlay
\* hidden and no controller registered
Sent == {client.bulk.requests[n] : n \in DOMAIN client.bulk.requests}
Unsent == {client.bulk.keys[n] : n \in DOMAIN client.bulk.keys} \ Sent
C38_CancelStopsBulkDelete ==
    /\ [][client.bulk.aborted /\ client.bulk.phase # "idle"
             => client'.bulk.requests = client.bulk.requests]_vars
    /\ [](client.bulk.outcome = "cancelled" /\ client.bulk.phase = "idle"
             => Unsent \subseteq sk[client.tab])
    /\ [](client.bulk.outcome # "none" /\ client.bulk.phase = "idle"
             => client.overlayHidden /\ client.controller = "null")
C38_Witness ==
    /\ client.bulk.outcome = "cancelled" /\ client.bulk.phase = "idle"
    /\ Len(client.bulk.keys) = 3 /\ Len(client.bulk.requests) = 1
    /\ sk.waypoints = (1..MaxItems) \ Sent
    /\ client.overlayHidden /\ client.controller = "null"

=============================================================================
